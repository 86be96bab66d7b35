----------------------------- MODULE PortalPage -----------------------------
(***************************************************************************)
(* The page of the captive portal (code.js) in a browser, and the web      *)
(* server behind it.  The page runs one handler at a time, each up to its  *)
(* next await: between the request and what follows its answer the user    *)
(* clicks, intervals fire and other answers arrive.                        *)
(*                                                                         *)
(* The server's side is ConnectionStatus, which WifiManager implements.    *)
(* The list of networks is data: clicking on it selects any network.  Its  *)
(* interval is left out, and of its requests all but the first, which      *)
(* docReady awaits; so are texts, the credits and the question whether to  *)
(* disconnect.  The two forms for a password, one with a name that is      *)
(* typed (connect_manual), are one section.                                *)
(***************************************************************************)
EXTENDS Naturals, FiniteSets

CONSTANTS
  Nets, NoNet,   \* names of networks; no network (also "", and a label clicked on)
  MaxCalls,      \* bound: requests to connect.json at a time
  MaxPolls,      \* bound: requests for status.json at a time
  Env            \* what can go wrong: EnvKinds

EnvKinds == {"reject",   \* a fetch of connect.json fails
             "invalid"}  \* it is answered by 400: an open network, no password

ASSUME PageAssumption ==
  /\ NoNet \notin Nets
  /\ MaxCalls \in Nat \ {0} /\ MaxPolls \in Nat \ {0}
  /\ Env \subseteq EnvKinds

VARIABLES
  ssid, status, \* the server's side
  shown,        \* the sections with display "block"
  selected,     \* selectedSSID
  success, fail,  \* the verdict on the wait screen
  okEnabled,    \* ok-connect
  panel,        \* wifi-status is displayed
  loadPending,  \* docReady awaits its first list
  statusPoll,   \* checkStatusInterval is not null
  leaked,       \* intervals run that checkStatusInterval no longer holds
  died,         \* history: a handler has ended at its await, polling stopped
  calls,        \* requests to connect.json under way
  polls         \* requests for status.json under way

server == <<ssid, status>>
wait   == <<success, fail, okEnabled>>
timers == <<statusPoll, leaked, died>>
view   == <<shown, selected>>
pageVars == <<server, view, wait, panel, loadPending, timers, calls, polls>>

Networks == Nets \cup {NoNet}

\* The web server is inside the handler of a POST and serves nothing else.
Writing == \E c \in 1..MaxCalls : calls[c].at \in {"blank", "written"}

\* The page does not rely on who has asked for a failed attempt.
Device == INSTANCE ConnectionStatus
            WITH Ssids <- Nets, Blank <- NoNet, asked <- TRUE, writing <- Writing

Sections == {"wifi", "connect", "connect-wait", "connect-details"}

Codes == {"CLEARED", "CONNECTION_OK", "FAILED_ATTEMPT", "USER_DISCONNECT",
          "LOST_CONNECTION"}
Statuses == [urc : Codes, ssid : Networks]

\* Requests and their answers are numbered slots.
Free == [at |-> "none"]
JoinCall(net) == [at |-> "sent", kind |-> "join", net |-> net]
LeaveCall == [at |-> "sent", kind |-> "leave", net |-> NoNet]
Calls == [at : {"sent", "blank", "written", "answered"}, kind : {"join", "leave"}, net : Networks]
           \cup {Free}
Asks == [at |-> "sent"]
Polls == {Free, Asks} \cup [at : {"answered"}, data : Statuses]

PageTypeOK ==
  /\ ssid \in Networks /\ status \in Statuses
  /\ shown \subseteq Sections /\ selected \in Networks
  /\ success \in BOOLEAN /\ fail \in BOOLEAN /\ okEnabled \in BOOLEAN
  /\ panel \in BOOLEAN
  /\ loadPending \in BOOLEAN
  /\ statusPoll \in BOOLEAN /\ leaked \in BOOLEAN
  /\ died \in BOOLEAN
  /\ calls \in [1..MaxCalls -> Calls]
  /\ polls \in [1..MaxPolls -> Polls]

\* The page has just been loaded; the device may be doing anything.
PageInit ==
  /\ ssid \in Networks
  /\ status \in {Device!Nothing} \cup {Device!Says(c) :
                   c \in {"CONNECTION_OK", "FAILED_ATTEMPT", "LOST_CONNECTION"}}
  /\ shown = {"wifi"} /\ selected = NoNet
  /\ success = FALSE /\ fail = FALSE /\ okEnabled = TRUE
  /\ panel = FALSE
  /\ loadPending = TRUE
  /\ statusPoll = FALSE /\ leaked = FALSE /\ died = FALSE
  /\ calls = [c \in 1..MaxCalls |-> Free]
  /\ polls = [p \in 1..MaxPolls |-> Free]

-----------------------------------------------------------------------------
(* Intervals.  A second setInterval without a clear loses the first one's  *)
(* number: that interval runs for as long as the page.                     *)
StopCheckStatusInterval == statusPoll' = FALSE

StartCheckStatusInterval ==
  /\ statusPoll' = TRUE
  /\ leaked' = (leaked \/ statusPoll)
  /\ died' = FALSE

\* refreshAP catches its own errors, so that docReady always goes on.
LoadEnds ==
  /\ loadPending
  /\ loadPending' = FALSE
  /\ StartCheckStatusInterval
  /\ UNCHANGED <<server, view, wait, panel, calls, polls>>

-----------------------------------------------------------------------------
(* Clicks.  A button can be clicked while its section is displayed.        *)
Shows(show, hide) == shown' = (shown \ hide) \cup show

ClickStatus ==
  /\ "wifi" \in shown /\ panel
  /\ Shows({"connect-details"}, {"wifi"})
  /\ UNCHANGED <<server, selected, wait, panel, loadPending, timers, calls, polls>>

ClickManual ==
  /\ "wifi" \in shown
  /\ selected' = NoNet
  /\ Shows({"connect"}, {"wifi"})
  /\ UNCHANGED <<server, wait, panel, loadPending, timers, calls, polls>>

ClickNetwork(net) ==
  /\ "wifi" \in shown
  /\ selected' = net
  /\ Shows({"connect"}, {"wifi"})
  /\ UNCHANGED <<server, wait, panel, loadPending, timers, calls, polls>>

Cancel ==
  /\ "connect" \in shown
  /\ selected' = NoNet
  /\ Shows({"wifi"}, {"connect"})
  /\ UNCHANGED <<server, wait, panel, loadPending, timers, calls, polls>>

OkDetails ==
  /\ "connect-details" \in shown
  /\ Shows({"wifi"}, {"connect-details"})
  /\ UNCHANGED <<server, selected, wait, panel, loadPending, timers, calls, polls>>

OkConnect ==
  /\ "connect-wait" \in shown /\ okEnabled
  /\ Shows({"wifi"}, {"connect-wait"})
  /\ UNCHANGED <<server, selected, wait, panel, loadPending, timers, calls, polls>>

-----------------------------------------------------------------------------
(* The two calls that are awaited: performConnect and yes-disconnect.      *)
Sends(c, call) == calls[c] = Free /\ calls' = [calls EXCEPT ![c] = call]

PerformConnect(c, net) ==
  /\ StopCheckStatusInterval
  /\ selected' = net
  /\ success' = FALSE /\ fail' = FALSE
  /\ okEnabled' = FALSE
  /\ Shows({"connect-wait"}, {"connect"})
  /\ Sends(c, JoinCall(net))
  /\ UNCHANGED <<server, panel, loadPending, leaked, died, polls>>

\* A network clicked on, or one typed.
Join(c) == "connect" \in shown /\ \E net \in Nets \cup {selected} : PerformConnect(c, net)

YesDisconnect(c) ==
  /\ "connect-details" \in shown
  /\ StopCheckStatusInterval
  /\ selected' = NoNet
  /\ Sends(c, LeaveCall)
  /\ UNCHANGED <<server, shown, wait, panel, loadPending, leaked, died, polls>>

Answered(c, kind) ==
  /\ calls[c].at = "answered" /\ calls[c].kind = kind
  /\ calls' = [calls EXCEPT ![c] = Free]

MutJoinReturns(c) ==
  /\ Answered(c, "join")
  /\ UNCHANGED <<server, view, wait, panel, loadPending, statusPoll, leaked, died, polls>>

\* The intervals restart whatever the answer was.
JoinReturns(c) ==
  /\ Answered(c, "join")
  /\ StartCheckStatusInterval
  /\ UNCHANGED <<server, view, wait, panel, loadPending, polls>>

LeaveReturns(c) ==
  /\ Answered(c, "leave")
  /\ StartCheckStatusInterval
  /\ Shows({"wifi"}, {"connect-details"})
  /\ UNCHANGED <<server, selected, wait, panel, loadPending, polls>>

\* The exception leaves the handler at the await.  What the page does while the
\* server handles its request goes unseen there, so it is told of an error after.
CallRejected(c) ==
  /\ "reject" \in Env
  /\ calls[c].at \in {"sent", "answered"}
  /\ calls' = [calls EXCEPT ![c] = Free]
  /\ died' = ~statusPoll
  /\ UNCHANGED <<server, view, wait, panel, loadPending, statusPoll, leaked, polls>>

-----------------------------------------------------------------------------
(* checkStatus: an interval asks, the answer is handled when it arrives.   *)
Poll(p) ==
  /\ statusPoll \/ leaked
  /\ polls[p] = Free
  /\ polls' = [polls EXCEPT ![p] = Asks]
  /\ UNCHANGED <<server, view, wait, panel, loadPending, timers, calls>>

\* A request that fails, or is answered by 503, is caught.
PollFails(p) ==
  /\ polls[p] # Free
  /\ polls' = [polls EXCEPT ![p] = Free]
  /\ UNCHANGED <<server, view, wait, panel, loadPending, timers, calls>>

MutSucceeds(data) ==
  /\ data.ssid # NoNet /\ data.ssid = selected /\ data.urc = "CONNECTION_OK"
  /\ panel' = TRUE
  /\ success' = TRUE
  /\ UNCHANGED <<okEnabled, fail>>

Succeeds(data) ==
  /\ data.ssid # NoNet /\ data.ssid = selected /\ data.urc = "CONNECTION_OK"
  /\ panel' = TRUE
  /\ okEnabled' = TRUE
  /\ success' = TRUE /\ fail' = FALSE

\* gel("loading").display and gel("wifi-status").display are not styles: the
\* assignments of lines 315 and 321 have no effect.
Fails(data) ==
  /\ data.ssid # NoNet /\ data.ssid = selected /\ data.urc = "FAILED_ATTEMPT"
  /\ okEnabled' = TRUE
  /\ success' = FALSE /\ fail' = TRUE
  /\ UNCHANGED panel

MutElsewhere(data) ==
  /\ data.ssid # NoNet /\ data.ssid # selected /\ data.urc = "CONNECTION_OK"
  /\ panel' = (panel \/ selected # NoNet)
  /\ UNCHANGED <<success, fail, okEnabled>>

\* The device is connected without the user having done anything here.
Elsewhere(data) ==
  /\ data.ssid # NoNet /\ data.ssid # selected /\ data.urc = "CONNECTION_OK"
  /\ panel' = TRUE
  /\ UNCHANGED <<success, fail, okEnabled>>

Gone(data) ==
  /\ data.ssid = NoNet /\ data.urc = "USER_DISCONNECT"
  /\ panel' = FALSE
  /\ UNCHANGED <<success, fail, okEnabled>>

Ignored(data) ==
  /\ \/ data.urc \in {"CLEARED", "LOST_CONNECTION"}
     \/ data.urc = "FAILED_ATTEMPT" /\ data.ssid # selected
     \/ data.ssid = NoNet /\ data.urc # "USER_DISCONNECT"
  /\ UNCHANGED <<panel, success, fail, okEnabled>>

CheckStatus(p) ==
  /\ polls[p].at = "answered"
  /\ LET data == polls[p].data
     IN Succeeds(data) \/ Fails(data) \/ Elsewhere(data) \/ Gone(data) \/ Ignored(data)
  /\ polls' = [polls EXCEPT ![p] = Free]
  /\ UNCHANGED <<server, view, loadPending, timers, calls>>

-----------------------------------------------------------------------------
(* The web server handles one request at a time.                           *)
ServeStatus(p) ==
  /\ ~Writing
  /\ polls[p].at = "sent"
  /\ polls' = [polls EXCEPT ![p] = [at |-> "answered", data |-> status]]
  /\ UNCHANGED <<server, view, wait, panel, loadPending, timers, calls>>

Moves(c, from, to) ==
  /\ calls[c].at = from
  /\ calls' = [calls EXCEPT ![c].at = to]
  /\ UNCHANGED <<view, wait, panel, loadPending, timers, polls>>

(* The handler of a POST overwrites the configuration in the open: memset, *)
(* the name (the password goes unseen), and then the status is cleared and *)
(* the request answered.  The device may speak between any two.            *)
PostConnect(c) ==
  /\ Moves(c, "sent", "blank")
  /\ calls[c].kind = "join" /\ calls[c].net # NoNet
  /\ Device!BeginRequest

PostCopies(c) ==
  /\ Moves(c, "blank", "written")
  /\ ssid' = calls[c].net
  /\ Device!Write

ConnectAsync(c) ==
  /\ Moves(c, "written", "answered")
  /\ Device!Ask

PostContinues == \E c \in 1..MaxCalls : PostCopies(c) \/ ConnectAsync(c)

\* A header that is empty: 400, nothing is asked of the device.
ServeInvalid(c) ==
  /\ ~Writing
  /\ Moves(c, "sent", "answered")
  /\ calls[c].kind = "join"
  /\ calls[c].net = NoNet \/ "invalid" \in Env
  /\ UNCHANGED server

\* The disconnection follows, or does not.
ServeDelete(c) ==
  /\ ~Writing
  /\ Moves(c, "sent", "answered")
  /\ calls[c].kind = "leave"
  /\ UNCHANGED server

DeviceStep ==
  /\ UNCHANGED <<view, wait, panel, loadPending, timers, calls, polls>>
  /\ Device!Verdict

-----------------------------------------------------------------------------
User ==
  \/ ClickStatus \/ ClickManual \/ Cancel \/ OkDetails \/ OkConnect
  \/ \E net \in Nets : ClickNetwork(net)
  \/ \E c \in 1..MaxCalls : Join(c) \/ YesDisconnect(c)

Returns == \E c \in 1..MaxCalls : JoinReturns(c) \/ LeaveReturns(c) \/ CallRejected(c)

Serves ==
  \/ \E c \in 1..MaxCalls : PostConnect(c) \/ ServeInvalid(c) \/ ServeDelete(c)
  \/ PostContinues
  \/ \E p \in 1..MaxPolls : ServeStatus(p)

Polling == \E p \in 1..MaxPolls : Poll(p) \/ PollFails(p) \/ CheckStatus(p)

PageNext == LoadEnds \/ User \/ Returns \/ Serves \/ Polling \/ DeviceStep

PageSpec == PageInit /\ [][PageNext]_pageVars

\* Intervals fire, the server answers, and not every answer is lost.
PageFairness ==
  /\ WF_pageVars(LoadEnds) /\ WF_pageVars(PostContinues)
  /\ \A p \in 1..MaxPolls :
       WF_pageVars(Poll(p)) /\ SF_pageVars(ServeStatus(p)) /\ SF_pageVars(CheckStatus(p))

FairPageSpec == PageSpec /\ PageFairness

-----------------------------------------------------------------------------
(* Properties.                                                             *)

Calling == \E c \in 1..MaxCalls : calls[c] # Free

(* Whatever the user clicks while requests are awaited, polling is on      *)
(* whenever none is, unless one has failed: the clears of one handler and  *)
(* the starts of another may cross (code.js:164, 178, 194, 229).           *)
PollingResumes == ~loadPending /\ ~Calling /\ ~died => statusPoll

PollingOn == statusPoll \/ leaked
Waits(net) == "connect-wait" \in shown /\ selected = net

(* A user who keeps waiting is told in the end what the device says of the *)
(* network, and let go, although answers from before the request may have  *)
(* shown something else.                                                   *)
Told(verdict) ==
  /\ success = (verdict = "CONNECTION_OK") /\ fail = (verdict = "FAILED_ATTEMPT")
  /\ okEnabled
VerdictConverges ==
  \A net \in Nets, verdict \in {"CONNECTION_OK", "FAILED_ATTEMPT"} :
    <>[](PollingOn /\ Waits(net) /\ status = [urc |-> verdict, ssid |-> net])
      => <>[]Told(verdict)

(* What the page shows of the connection is in the end what the device     *)
(* says, whatever the user does meanwhile: the panel is there if it stays  *)
(* connected and gone if it was disconnected.                              *)
PanelFollowsDevice ==
  /\ <>[](PollingOn /\ status.urc = "CONNECTION_OK" /\ status.ssid # NoNet) => <>[]panel
  /\ <>[](PollingOn /\ status.urc = "USER_DISCONNECT") => <>[]~panel
=============================================================================
