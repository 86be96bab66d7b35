# Formal model of the ESP32-C2 workspace

This directory holds TLA+ specifications of the firmware in this repository,
TLC configurations that model-check them on small instances, and TLAPS proofs
of the properties that matter most for every instance.

The repository is a collection of independent firmware projects. Each of them
is a system of its own; only two of them, the GATT server and the GATT client,
talk to each other. What carries logic, and is modelled:

* `esp32-wifi-manager-master`: a component that keeps an ESP32 on a Wi-Fi
  network, or lets a user choose one through a captive portal;
* `thing_shadow`: a demo that deletes, updates and watches an AWS IoT device
  shadow over MQTT;
* four ways to bring the credentials of a network to a device over Bluetooth:
  `blufi`, `gatt_server_service_table`, `esp_nible_test`, and the pair
  `gatt_server` and `gatt_client_native_example`, which exchange a value;
* `cJSON.c`, which two of them carry as a source file.

## 1. Running

    tlc -config WmLink.cfg WifiManagerRetries.tla   # one of the runs of section 4
    tlapm WifiManager_proofs.tla                    # one of the proof modules

`PROJECT.json` lists the runs, the source lines each definition translates
("map"), a mutation of the model that each property refutes ("mutants"), the
hazards of the code with the properties that watch them, and the theorems.
Operators named `Mut...` are those mutations: each is the definition that
follows it with a plausible bug put in, and nothing else uses them.

## 2. Inventory

### 2.1 esp32-wifi-manager

| part | state | operations | talks to |
|---|---|---|---|
| `wifi_manager` task (`wifi_manager.c:884-1336`) | queue of 3 messages, event group of 7 bits, two one-shot timers, `retries`, the station configuration in RAM, `ip_info_json`, the list of access points | one handler per message code | the driver (ESP-IDF calls), flash, web server, DNS server, user callbacks |
| event handler (`wifi_manager.c:544-753`), in the event-loop task | none of its own: sets and clears event bits | one case per Wi-Fi or IP event | posts messages to the task, blocking |
| timer callbacks (`wifi_manager.c:144-174`), in the timer daemon | none | retry, shut the access point down | stop their timer, post messages, blocking |
| credentials in flash (`wifi_manager.c:214-392`, `nvs_sync.c`) | three blobs `ssid`, `password`, `settings`; a mutex shared with the application | fetch, save (by difference), erase (save of a blank configuration) | called by the task; the web server writes the same configuration |
| web server (`http_app.c`) | the URLs it answers, the httpd handle, the application's handlers | start, stop, GET pages, ap.json, status.json, POST and DELETE connect.json | writes the configuration, clears the status, posts orders, blocking |
| DNS server (`dns_server.c`) | its task, its socket | start, stop, answer every name with the access point's address | started and stopped by the wifi_manager task |
| portal page (`code.js`) | selected network, two polling intervals, the page shown | connect, disconnect, refresh of lists and status | HTTP requests to the web server |
| access point list (`wifi_manager.c:453-481, 809-858`) | the records of the last scan | remove duplicates, print as JSON | under the JSON mutex |
| `json.c` | none | escape a string | called when JSON is printed |

Hard behaviours:

* four tasks put messages into one queue of three slots with no timeout, and
  the task that empties it is one of them;
* the driver's events and the event bits derived from them reach the task
  later than what they tell about, and the task decides on both;
* request bits (`REQUEST_STA_CONNECT`, `REQUEST_DISCONNECT`,
  `REQUEST_RESTORE_STA`) say why the *next* disconnection happens and are
  consumed by whichever disconnection comes next;
* every path out of a lost connection has to leave behind a timer, an order in
  the queue or an access point, or the device is out of reach for good;
* one configuration is written by the web server without a lock and read by
  the task when it connects, reports and saves;
* three flash writes make one network, and power may fail between them.

What makes it correct: a device can always be reached again; a saved network
is retried within its budget and is never erased without a request; the access
point and the hijacking DNS server come and go together and in time; the status
that the page polls is that of the request it waits for; what is loaded at boot
is what was saved; nobody waits for ever.

### 2.2 thing_shadow

| part | state | operations | talks to |
|---|---|---|---|
| demo script (`shadow_demo_main.c:610-927`) | `returnStatus`, `demoRunCount` | establish, subscribe, publish, unsubscribe, check, disconnect; retry of a whole run | the MQTT helpers |
| message handlers (`shadow_demo_main.c:331-608`) | `currentPowerOnState`, `currentVersion`, `stateChanged`, `deleteResponseReceived`, `shadowDeleted`, `eventCallbackError` | delta, accepted, rejected, delete accepted or rejected | called from inside the calls that wait |
| MQTT helpers (`shadow_demo_helpers.c`) | packet identifiers awaited, last identifier acknowledged, table of publishes not yet acknowledged | session with clean start or resumed, resend, wait with a timeout | coreMQTT, TLS |

Hard behaviours: identifiers restart with each session while publishes of an
earlier one are resent with theirs; acknowledgments come after the wait for them
was given up; a broker's session outlives a run and a boot; any call may fail
with the connection up or down; deltas are duplicated and late. What makes it
correct: the assertions on identifiers never stop the device; a call that
returns success was answered by the broker, and not by a late acknowledgment of
something else; nothing stays subscribed; the demo ends, and reports what happened.

### 2.3 Bluetooth firmwares

| firmware | state | operations | hard behaviour | what makes it correct |
|---|---|---|---|---|
| `blufi` (`blufi_example_main.c`, `blufi_security.c`, `blufi_init.c`) | station flags, retry counter, connection to the phone, negotiated session and its heap blocks | handlers of Wi-Fi and IP events in the event loop, blufi callbacks in the Bluetooth task | both tasks use the flags without a lock; a request overlaps an attempt or a scan; a phone leaves in the middle of a negotiation | flags follow the link; the device can be found again; every block is freed once; a phone that stays is told how it ended |
| `gatt_server_service_table` | prepare buffer, advertising flags, two keys in flash, the station it starts | GATT and GAP callbacks, Wi-Fi event handler | a long write broken off or cancelled; the callback waits for the station without a timeout; power cuts between two keys | what is saved is one text a phone has sent; a phone that keeps sending brings the device online |
| `gatt_server` | two profiles with their handles, prepare buffers, advertising data | GATT and GAP callbacks | a table of attributes built step by step while clients already come; advertising that fails to start | a client sees a service it can use; the server can be found again |
| `gatt_client_native_example` | `connect`, discovered handles | scan, open, search, register, write | late results of one connection meet the next | the client asks for one connection at a time, and writes in the end |
| `esp_nible_test` | advertising, connection, four keys in flash | GAP events, handler of writes | events queue up behind flash writes; resets of the host; power cuts | what was answered is saved; keys stay in order; advertising starts again |
| `station` | retry counter, two event bits | event handler, wait | none beyond `wifi_station.c`, which is the same code | |

The callbacks of one Bluetooth stack run in one task, in the order of the events;
calls into the stack return at once and complete by an event. That is where the
order of things can differ from what the author of a handler had in mind, and what
the models keep.

### 2.4 cJSON

A heap of items linked by `next`, `prev` and `child`, and strings that items own or
share. Its callers hold roots. Hard: allocations fail in the middle of a call or of a
text, `prev` of the first child is the last child, references share children that
another tree owns, constant names are not freed. Correct: nothing is lost or
freed twice, every list can be walked and appended to, and a call does to the
caller's trees what its name says.

### 2.5 The rest

`power_measurement_by_interrupt` has two pulse counters that tasks read and reset
while interrupts increase them; `button_pressed_nvs_with_bluefi` is a hello-world
stub; `thing_shadow/main/app_main.c` starts the demo. Vendored, generated or
example code is left aside: `esp_secure_cert_mgr`, the `build/` directories, the
examples and assets.

## 3. Modules

| module | what it is |
|---|---|
| `WifiManager` | the wifi_manager task, its senders, timers, event group, and the driver |
| `WifiManagerRetries` | `WifiManager` with an observer that counts attempts, for the retry budget |
| `WifiManagerUsers` | `WifiManager` with a bound on the requests of users |
| `MCWifiManager` | constants of both for TLC |
| `ConnectionStatus` | abstract: what status.json promises the page; `WifiManager` implements it |
| `PortalPage` | the page in a browser and the requests under way, over `ConnectionStatus` |
| `ApList`, `MCApList` | the list of access points: made by the task, sent by the web server |
| `CredentialStore` | abstract: a store that saves one network as a whole |
| `NvsStore`, `MCNvsStore` | the credentials in flash, one flash access per step; implements `CredentialStore` |
| `ShadowDemo`, `MCShadowDemo` | the shadow demo with its MQTT helpers, the broker and the network |
| `BlufiSecurity` | the key negotiation of blufi and its heap blocks |
| `Blufi` | the blufi example: two tasks, the driver, a phone; extends `BlufiSecurity` |
| `GattServer`, `GattClient` | the two programs of the GATT pair, each with its inbox and calls |
| `BleLink` | both with their stacks, the air between them and a guest |
| `KeyStore` | the key-value store that two firmwares keep in flash |
| `Station` | `wifi_station.c`: the station and the wait for it |
| `GattTable` | gatt_server_service_table: extends `KeyStore` and `Station` |
| `Nimble` | esp_nible_test: extends `KeyStore` |
| `JsonForest` | abstract: a forest of items, and what a call may do to it |
| `CJson`, `MCCJson` | the items of cJSON.c and their links; implements `JsonForest`; bounds for TLC |
| `CJsonInvariant` | the inductive invariant of `CJson` and the words its proof is in |
| `..._proofs` | theorems about the module they are named after; `Portal_proofs` about `ApList` and `PortalPage`, `Credentials_proofs` about `NvsStore` and `Nimble` |

### 3.1 WifiManager

State. `queue` is `wifi_manager_queue`. `pending[s]` is the message that actor
`s` is blocked sending: every `xQueueSend` of the code waits with
`portMAX_DELAY`, so a send is two steps, the code up to the send (which sets
`pending`) and `Send(s)`, possible once there is room. `bits` is the event
group; `retries` a local variable of the task; `config` is
`*wifi_manager_config_sta`; `nvs` the network in flash (saved as a whole here;
`NvsStore` looks inside a save); `json` what `ip_info_json` says, a reason code
and the network it names; `dns` is `task_dns_server != NULL`. `sta`, `staCfg`,
`scanning`, `mode` and `events` belong to the driver and the event loop: what a
call of the driver does at once, and the events that tell of it later, in
order. A configuration is a name and a password, either of which may be `Blank`:
a network, nothing, or what a POST has written of one. `posting` is the network
that a POST is writing, and what it does next.

Actions.

* `Handle...` are the cases of the `switch` in `wifi_manager()`, each from the
  receive to the point where the task blocks or receives again. Two cases stop
  the web server, which waits for the task of the web server to end its
  request: `HandleStartAp` and `HandleStopAp` go as far as `http_app_stop`
  (`restart` says for which order), `FinishStartAp` and `FinishStopAp` from there
  on, and they need the web server not to be blocked in a send.
* `DriverRefuses` is `esp_wifi_connect` returning an error inside
  `ESP_ERROR_CHECK`, which aborts and restarts the device.
* `EventHandler` is `wifi_manager_event_handler` for one event: it changes the
  bits at once and posts the message.
* `TimerRetryCb`, `TimerShutdownApCb`: the two callbacks. `TimerCommand`: the
  daemon executes one start or stop command; the code sends those with a waiting
  time of zero through the daemon's own queue, and that order matters.
* `PostConnect`, `DeleteConnect`, `GetApJson`: what the request handlers of the
  web server do to this state. The web server is reachable through the access
  point or the station's link. A POST takes no lock, so each of its writes is a
  step: `PostConnect` is the `memset` of the configuration, `PostCopies` each of the two
  `memcpy` (`http_app.c:170-172`), and `ConnectAsync` clears the status
  (under the mutex of the JSON) and posts the order. Between any two of them the task
  may report, save or connect with what there is. A handler of the task
  reads the configuration at one moment: that a save reads it field by field, so
  that one save may take its name from before a `memcpy` and its password from after,
  is `NvsStore`'s to show.
* `ConnectSucceeds`, `ConnectFails`, `LinkLost`, `AddressRenewed`,
  `ScanCompletes`: the driver and the radio. `PowerCut` restarts the device.

`Env` names what the surroundings do, so that each run says under which
circumstances its properties hold. `SlowTimers` says that a timer, which runs
for 5 s or 60 s, expires only when no message is left to be handled, each of
which takes milliseconds. It is the timing assumption of both runs.

### 3.2 NvsStore

`op` and `step` are the program counter of `wifi_manager_fetch_wifi_sta_config`
and `wifi_manager_save_sta_config`: lock, open, each of the three blobs,
commit. `SaveSkips` and `SaveWrites` read a blob, compare and write it when it
differs; `SaveWriteFails` is an error of the write, `SaveEndsBadly` the commit
that fails and returns with the mutex still held (`wifi_manager.c:301`).
`PostBegins` and `PostCopies` are the three steps with which the web server
overwrites the configuration (`http_app.c:169-172`): a `memset` and two
`memcpy`. `AppLocks` and `AppUnlocks` are the application around
`nvs_sync_lock`. `PowerCut` keeps `flash` and loses the rest.

`CredentialStore` is the store a reader has in mind: `Save(c)`, `Load`,
`Restart`. `StoreSpec` maps its `saved` to the configuration being saved while a
save runs, and to the pair in flash otherwise: a save counts from its first
step, which is right as long as nothing interrupts it.

### 3.3 ShadowDemo

`Script` is the sequence of MQTT calls of `aws_iot_demo_main` and `call` where
the task is in it. A call first sends (`Subscribe`, `Unsubscribe`, `Publish`)
and then waits (`WaitEnds` when the identifier awaited has been acknowledged,
`WaitFails` on a timeout or a broken link). `eventCallback` handles one packet,
which happens only inside a wait or the loop after a publish: there is one task.
`StartsClean` and `Resumes` are `EstablishMqttSession`; a resumed session sends
the publishes again that were never acknowledged. `Judge` is the end of the
outer loop. `BrokerAnswers` grants what is asked for or, for a topic of `Refusable`,
refuses the subscription (`BrokerRefuses`): the SUBACK then has a return code of 0x80,
but also the identifier, which is all that `HandleOtherIncomingPacket` looks at
(`shadow_demo_helpers.c:639-645`). `refused` remembers it for as long as the request is
waited for. `BrokerAnswers`, `ShadowPublishes` (the service and other clients,
at any time, any message, repeatedly) and `LinkBreaks` are the outside. The
broker may answer any outstanding request at any time or never; packets are
sets, so that they overtake each other, which is weaker than TCP and sound for
safety.

### 3.4 ConnectionStatus and PortalPage

`ConnectionStatus` is the contract between the two halves of the portal. On one
side `WifiManager!StatusSpec` says that the task, its queue, timers and events
implement it: the status names what the configuration named when it was
written, a request clears it, and `FAILED_ATTEMPT` is only ever said while a
request of a user is queued or its bit is set. `asked` is mapped to exactly that
(`RequestUnderway`), and `writing` to a POST that is under way: a request begins by
blanking the configuration (`BeginRequest`), writes its network (`Write`), and only then
clears the status and asks (`Ask`), so that a status written in between names nothing,
or the new network with the verdict on the old. On the other side `PortalPage` has an instance of it as its
server, so that a page, its requests and the device need not be explored
together. `DeviceStep` is anything the contract lets the device say.

JavaScript runs one handler at a time and a handler runs to its next `await`:
those are the atomic steps. `PerformConnect` and `YesDisconnect` are the two
handlers up to their `await fetch(...)`, `JoinReturns` and `LeaveReturns` what
follows it, `CallRejected` the exception of a fetch that fails, which nothing
catches. `Poll` is `checkStatus` up to its fetch, `CheckStatus` what it does with
the answer, with an operator for each branch (`Succeeds`, `Fails`, `Elsewhere`,
`Gone`, `Ignored`). `statusPoll` is `checkStatusInterval != null`; `leaked` that an
interval runs whose number was overwritten. `PostConnect` with `PostContinues`, `ServeInvalid`,
`ServeDelete` and `ServeStatus` are the handlers of `http_app.c`, which take one
request at a time in any order (nothing else is served while a POST is `Writing`, but the
device may speak); an answer may reach the page at any later time.
`PageInit`, `PageNext` and `PageSpec` have names of their own because `Portal_proofs`
extends this module beside `ApList`.

### 3.5 ApList

A step is an iteration of a loop of `wifi_manager_filter_unique` or of
`wifi_manager_generate_acess_points_json`, since the web server's task may run
between any two. `step`, `i` and `j` are where the task is, `free` is `first_free`.
`Compare` and `NextAp` remove duplicates, `SkipCleared` and `MoveUp` compact what is
left, `WriteAp` prints a record. `LockTimesOut` is the wait of a second for the JSON
mutex that `GetApJson` holds while a browser is served. `scan`, what the driver had
found, is auxiliary: the properties compare the list with it. A record is a name, a
mode and a strength; a cleared record is one whose name is empty, as in the code,
which is also what the record of a hidden network looks like.

### 3.6 Blufi and BlufiSecurity

A handler is one action up to the call in which the other task can run: the result of
`esp_wifi_connect` is assigned to `gl_sta_is_connecting` in a step of its own
(`StaStartAssigns`, `ReconnectAssigns`, `ReqConnectAssigns`), and a blocking scan keeps
its caller (`at`). `todo` is what `app_main` has still to do; `Boots` and `BootFails` are
its steps in the order of `blufi_init.c`, which is another one for Bluedroid than
for NimBLE. `events` are the events of the driver that wait for the event loop,
`calls` those of the stack that wait for the Bluetooth task. `connInfo` says whether the
fields for the phone about the attempts (`gl_sta_conn_info`) are set.

`BlufiSecurity` is the context of a negotiation and the buffer inside it
(`context`, `dhParam`), and `heap`, the number of blocks the file has allocated and
not freed. Each `malloc` and each mbedTLS call may fail. The length of the parameters
may be sent again, the parameters without a length, and either without a context.

`Prompt` is a timing assumption: no association ends while a task is between
`esp_wifi_connect` and the assignment of its result, which are a few instructions. With
`Prompt = FALSE` the assignment may come after the event that ends the attempt, and
`gl_sta_is_connecting` stays set: the phone is told "connecting" for ever.

### 3.7 GattServer, GattClient and BleLink

Each program is a set of callbacks over an inbox, in the order of events, and a set or
sequence of calls under way into its stack. In `GattServer`, `handles[p]` is what
profile `p` has learned of its attributes, `requested` the calls the stack serves in
order; `answers` the packets that wait to be sent. `HandleRegA` to `HandleAddDescr`
are the chain that builds a profile's attributes (each handler calls for the next
one), `HandleWrite`, `HandlePrepare`, `HandleExec`, `HandleRead` the requests.
`StartAdvertising` is `esp_ble_gap_start_advertising` with the event that completes it:
either may report a failure, which `gap_gatt_handler.c:41` logs and nobody
handles: then the server is silent (`deaf`), and nobody tries again. `GattTable` has the same start of advertising.
In `GattClient`, `HandleScanResult` to `HandleWriteChar` are the handlers of the
discovery in the order in which they normally happen, but any of them may come at any
time in which the client's stack can send its event.

`BleLink` adds the stacks and the air: `Connects`, `Opens`, `LinkEnds`, requests one
at a time, answers in order, and a long write when the value does not fit the MTU. A
guest is any other central. The name the client looks for is not the name of this
server in the repository; the composition is of the two programs with one name.
`nvs.c` and `cjson_parser.c` of `gatt_server` are compiled and called by nothing.

### 3.8 KeyStore, Station and GattTable

`KeyStore` is `NVS_store_key` and `NVS_read_key`, which `gatt_server_service_table` and
`esp_nible_test` both have. A call is one step, as only its commit changes flash.
`AccessFails` says which access has failed, because the code treats the failures
differently: that of `nvs_set_blob` is overwritten by the result of the commit.
`Station` is `wifi_station.c`: `HandleStaDisconnected` retries within
`MaximumRetry` and sets the FAIL bit after that; `WaitEnds` is the wait with no
timeout for either bit. `GattTable` extends both.

`buffer` is the prepare buffer as far as it is written, a sequence of pieces, each
named by the text it is from; `HandlePrepare` writes one, `HandleExec` hands the buffer
to the JSON parser. `doing` is where the execute callback is: `SaveSsid`, `SavePass`,
`InitSta`, `Joined`. While it waits for the station, other events queue up. `Aborts` is
the second text since boot: initialising the network interface again is an error,
`ESP_ERROR_CHECK` aborts, and the device restarts with what it has just saved. All
attributes have `ESP_GATT_AUTO_RSP`, so that the stack answers the phone before the
program sees the request. Texts fit into the buffer, so the checks against
`PREPARE_BUF_MAX_SIZE` pass.

### 3.9 Nimble

`doing` is the key that `device_write` saves next: `SaveSsid`, `SavePass`, `SaveTopic`,
`SaveUuid`, then `Answers`. Saving a key takes the host's task so long that connections
end, the host resets and phones write again in the meantime (`inbox`).
`NVS_set_wifi_credential` stops at the first failure and `device_write` goes on to the
next pair; the phone is answered whatever was saved. Packets are numbered in the order
they were written, and a key in flash is the number of its packet, so that "newer"
can be said. `deaf` notes that `ble_gap_adv_start` has failed, whose result the code
does not look at. Reading the keys back and the notifications are functions the
program never calls.

### 3.10 JsonForest and CJson

`heap.item` holds the links of each item, `heap.strings` the number of strings, and
`heap.mem` how many allocations of the running call will still succeed: a call is
checked for each number. Every function of cJSON is an operator from heaps to
heaps of the same name; one that returns something yields a record. An action is a
call by a program. Calls that make any number of items take a step for each: the
parser, whose input is any text, is a state machine over tokens (`ReadScalar`,
`OpenArray`, `NewMember`, ...), `cJSON_CreateIntArray` and its like (`Fill`) take one per
element, `cJSON_Duplicate` (`Duplicate`) one per item; `calls` stands for their
recursion. So trees may be of any size and depth, and a call may fail at any item.
`cJSON_Delete` is stated in closed form (`Deletions`): the items its recursion visits are
those that `next` and `child` lead to (`Reached`), and one is freed twice exactly if two
ways lead to it (`FreedTwice`).
Callers keep to what the documentation asks of them: they own the roots, put no item
below itself, and leave alone what a reference shares (`Container`, `Deletable`,
`Placeable`). `lost` notes the references that `cJSON_AddItemReferenceToObject` loses when
copying the name fails.

`JsonForest` says what a caller expects: a call makes one tree, attaches one, detaches
one, deletes one or replaces one, and leaves all others as they are. `ForestSpec` reads
the forest off the links (`Trees`); the steps inside a call stutter. The lists are
walked by a recursive function (`Chain`), and what is below an item is the least set that is
closed downwards (`Tree`), so that both can be reasoned about.

## 4. Runs

Each run is expected to pass.

| run | states | question |
|---|---|---|
| `WmLink` | 2 thousand | with no user, do lost links, renewals and power cuts leave the bits, the DNS server, the retry timer and the saved network right; does the device come back, keep retrying within its budget, and close its access point once the link lasts? |
| `WmPages` | 1.5 million | with the pages open (posts, deletes, lists, a driver that refuses), does every request get a verdict unless it was taken while connected, does the scan bit never stay set, does the access point close only while online, and does the status keep the contract of `ConnectionStatus`? |
| `PortalPage` | 390 thousand | whatever a user clicks while requests are awaited, does polling resume, and does the page come to show what the device says? |
| `ApList` | 180 thousand | is what a browser is sent one scan's list, true and whole? |
| `NvsQuiet` | | do three blobs and a mutex implement the abstract store? |
| `NvsErrors` | | with power cuts and flash errors at any access, is what is restored what flash holds, and does a save repair what it finds? |
| `ShadowDemo` | 1.4 million | do the assertions hold, do calls mean what they return, is nothing left subscribed, does the demo end? |
| `Blufi` | 200 thousand | do the shared flags follow the link, can a phone always return, is every block freed once, and is a phone that stays told the truth? |
| `BleLink` | 180 thousand | does the client see a server it can use, at any moment of the server's start, and does a client that stays connected write in the end? |
| `GattTable` | 200 thousand | is what flash holds one text that a phone has sent, and does a phone that keeps sending bring the device online? |
| `Nimble` | 640 thousand | is what was answered saved, are the keys in order, does the device advertise again? |
| `CJson` | 23 thousand | with allocations that fail anywhere, is nothing lost or freed twice, and do the links implement a forest? |

Bounds, and why they are enough.

* `QueueCap = 3` is the code's. `MaxRetry = 2` in `WmLink` is what the code
  compares with when it is configured for the "3 attempts in total" of
  `wifi_manager.h:67`; 1 in `WmPages` keeps both branches.
* One name `s1`, one password `p1` and `Blank`: the task compares no two networks with each
  other, it only copies them, and a POST of the same network still has all its
  half-written configurations.
* `Requests = 4` of `WmPages` is what users ask for, where a POST, with its four steps,
  counts for two and any other request for one: two POSTs, or one with two other
  requests.
* `TimerQueueLen` bounds the commands that wait for the timer daemon, which the code
  sends with a waiting time of zero. In `WmLink` it is so large that none is lost. A
  lost command for the retry timer would leave a device without a link and without a
  retry, as it would in the code.
* `MaxEvents` bounds the events in an event loop. The driver's actions are
  disabled when it is reached. `Requests` bounds what users or phones ask for.
* `ImmediateStop` (the access point is shut down with the connection, a value of 0
  for its timer) is TRUE in `WmPages` and FALSE in `WmLink`, so both branches are run.
* `PortalPage` has one network, one request to connect.json and one to
  status.json at a time, because the cost of its liveness properties is in the
  number of requests. `NoNet` stands for the selection of another network.
  `PollingResumes` was checked once with two requests to connect.json (7.1
  million states), where the clears and starts of two handlers cross; the theorem is
  about any number.
* `ApList`: up to four records of one visible and one hidden name, two modes, two
  strengths: two networks can have a duplicate each, and a duplicate, a hidden
  record and a survivor can be in any order.
* `NvsStore` has three networks of two names and two passwords, so that a pair
  can differ in one field only.
* `ShadowDemo`: `MaxRuns = 2` is one retry (the safety properties also hold with three runs, 5.4 million states);
  `MaxInFlight = 1` message of the service besides any acknowledgments;
  `Versions = {2}`, since the handler compares with the initial version 0 and
  with the one it has taken; `Refusable` is one topic of the deletion and one of the
  update.
* `Blufi`: three requests make a request overlap an attempt, a scan and a second
  request; two waiting events are an event that ends an attempt behind one that
  ended the last; the NimBLE start-up, with `MaxRetry = 1`.
* `BleLink`: two connections (one leftover can meet the next), one failing call, one
  write of a guest, two waiting scan results. A guest comes only when the server is
  at rest (`GuestConnects`); the client comes at any moment.
* `GattTable`: two troubles of any kind, of which one may be a failed access to flash.
  Some mixtures need two (a broken link and a cancelled write), none needs three.
* `Nimble`: three packets and three troubles, two of which may be failed accesses.
* `CJson`: three items of one name are enough for a list with a first and a last element,
  for a tree of depth three, and for a reference and what it shares.
  The fourth item of the instance is there for calls: a copy of a tree of two takes it,
  and any call may make it, but TLC goes on only from states with three (`FewItems`), two roots
  (`FewRoots`) and two strings (`FewStrings`), or while a tree is copied. A lost reference is
  never read again, so little is done beside one (`FewLost`). All properties are checked on the
  states at the bound, too: a list of three elements is made there, but nothing is taken out of
  its middle. The theorems have no such limits.

Deadlock is not checked where the code can stop or the bounds are used up: the device
of `WmPages` when its users have sent their requests, a demo that has ended, a phone that
makes no more requests.

Fairness, and why the code justifies it.

* `WifiManager!Fairness`: the task, the event loop, the timer daemon and
  the web server are scheduled for ever (WF on the task, the event handler, the
  timers; SF on sends, since a FreeRTOS queue wakes the waiting sender of the
  highest priority and, among equals, the one that has waited longest, while another
  may fill the slot for a while); an attempt to connect ends
  (`ConnectSucceeds \/ ConnectFails` together, so nothing is assumed of which);
  a scan ends. No fairness for users, links, power. The properties of `WmLink` that
  need it assume `Calm`: from some moment on the power stays and leases are not
  renewed, since a device restarted for ever is never reachable.
* `ShadowDemo`: WF on the task only: each wait has a timeout. Nothing is assumed of
  the broker or the network.
* `PortalPage`: WF on the end of the first list (`refreshAP` catches its errors),
  on the interval and on the handler of a POST once it has begun; SF on serving a status request and on handling its answer,
  which says that not every one of them is lost. Nothing is assumed of the user,
  of the device or of the answers of connect.json; the properties state what they
  need of those (`<>[](... /\ status = ...)`).
* `Blufi`: both tasks, the end of an association and of a scan, and a phone that, as
  long as it is connected, asks for the status again.
* `BleLink`: both programs and both stacks. Nothing of the link: `WritesInTheEnd` is
  about a link that stays.
* `GattTable`: the tasks, the stack, the driver, and a phone that connects and sends
  as long as the device is not online.
* `Nimble`: the host's task, and that the host synchronises again after a reset.

## 5. Proofs

TLAPS checks, for every value of the constants that the named assumptions
allow:

| module | theorem | says |
|---|---|---|
| `WifiManager_proofs` | `TypeCorrect` | `TypeOK` |
| | `ConnectedBitIsDelayedCopy`, `ApBitIsDelayedCopy` | the two status bits are the driver's state as of the last event handled |
| | `HijackOnlyWithAp` | the DNS server runs only with the access point |
| | `MirrorsDriver` | the three above in one |
| | `ApStopIsSafe` | the access point goes down only online, or with the loss still being announced |
| | `ImplementsStatus` | the task implements `ConnectionStatus` |
| | `ScanBitBacked` | the SCAN bit never outlives its scan |
| | `RequestIsAnswered` | at rest a request without its verdict was taken while connected, and no failure or loss is reported then |
| | `SavedNetworkSurvives` | without a DELETE, and between POSTs, flash keeps its network or takes a whole one |
| | `AloneRestsSound`, `AloneNeverBlocked` | `SoundAtRest` and `NeverBlockedOnItself`, for a device left alone (see below) |
| | `BudgetIsKept` | `RetryBudget`, for a device left alone |
| `Portal_proofs` | `TypeCorrect`, `ServedListIsTrue` | of `ApList`: no loop leaves the records; the list given to browsers is one scan's, for every scan of every length |
| | `PageTypeCorrect`, `PollingAlwaysResumes` | of `PortalPage`: types; polling resumes, for any number of requests |
| `Credentials_proofs` | `NvsTypeCorrect`, `LockIsFreeAtRest` | of `NvsStore`: types; the mutex is given back, if commits do not fail |
| | `RestoresAreFaithful` | a fetch restores what flash holds, under every failure |
| | `SavesAreComplete` | a save repairs every mixture, if no POST interferes |
| | `SavedNetworksAreWhole`, `ImplementsStore` | flash holds a chosen pair at rest; refinement of `CredentialStore`, if nothing interrupts a save |
| | `TypeCorrect`, `KeysInOrder`, `AnswerMeansSaved` | of `Nimble`: the safety properties of the run, for any number of packets and troubles |
| `ShadowDemo_proofs` | `TypeCorrect`, `AssertionsHold`, `AcksAreGenuine`, `NothingStaysSubscribed` | the four safety properties of the run |
| `Blufi_proofs` | `TypeCorrect`, `HeapOwned`, `PhoneReturns`, `ConnectedFollows` | the safety properties of the run, for either host, any retry budget and any number of requests |
| `BleLink_proofs` | `TypeCorrect` | types, for any number of connections, failures and waiting events |
| | `OneConnection` | the client never asks for two connections |
| | `FindableServer` | a server that has handled all it was told advertises, is connected, or its last start of advertising has failed |
| | `AckMeansNotified` | an acknowledged client was notified over the same connection |
| `GattTable_proofs` | `TypeCorrect`, `TextsAreWhole` | types; flash holds one text that was sent, for any texts and any number of troubles |
| `CJson_proofs` | `Invariant`, `TypeCorrect` | the links are a forest in every state; types |
| | `NeverLeaks`, `AlwaysLinked` | the two safety properties of the run, for any number of items and names and any depth |
| | `ImplementsForest` | refinement of `JsonForest`, by every function of cJSON.c that is modelled |

The arguments.

* The delayed copies. `Follows(events, codes, bit, state)` says that the last
  announced event of the two codes agrees with the driver, or the bit does when
  there is none. It is inductive as it stands: the driver appends the event of
  its change in the same step, the event handler takes the first element and
  writes its value into the bit. The lemmas about appending to and taking from
  a sequence are stated once. `ApStopIsSafe` follows: `HandleStopAp` reads the
  bit, and if the bit is set while the driver is disconnected, the loss must be
  among the events (`LossExplains`). `HijackOnlyWithAp` needs no sequence.
* `ImplementsStatus`. Every step is shown to be one of the steps of
  `ConnectionStatus` or to leave the name in the configuration, the status,
  `RequestUnderway` and `Overwriting` alone. A user's request is one message and then
  one bit (`UserOrder`, `Noted`, `Blocked`, `Queued`): the lemmas say how a send and a
  receive move it from one to the next. A POST under way is told by `posting`, which
  only its own steps and a restart change, and writes a network (`PostsNet`); `Load` is
  possible only because nothing is posted before the task has loaded what was saved
  (`Fresh`).
* What becomes of scans, requests and the saved network. `Has` and `Coming` say that a
  message of some kind is announced, being sent or queued; lemmas carry them over an
  append, a tail, a send and the event handler. `ScanInv`: the SCAN bit is set only
  while a scan runs or the event that clears the bit is on its way. `VerdictInv`: a
  request the driver does not work on has a disconnection coming; the case that needs
  `LossExplains` is an order that finds WIFI_CONNECTED still set after the link broke.
  `CopyInv` is for the exception, a request taken while connected: the queue,
  into which only the event loop puts link events (`LoopSends`), is a delayed copy of
  WIFI_CONNECTED just as WIFI_CONNECTED is one of the link. So at rest with
  a link the last link event that the task has handled was an address, and no failure has
  been reported since (`Standing`).
  `SavedInv`: the memory holds a network or what flash holds, or the part that a POST has
  written so far (`Intact`), because it is only emptied by a restart, which is followed by
  loading, once and before anything else can happen (`BootStage`, `Fresh`), by the `memset` of a POST,
  and by an erase, which only a DELETE orders (`NoErase`). So a save between POSTs
  takes what the theorem says.
* A device left alone. `SoundAtRest` and `NeverBlockedOnItself` fail when users
  post or scan (section 6), and they depend on lengths and delays, which `Alone` names: `Env` has no `"post"`,
  `"delete"` or `"scan"`; a timer does not expire while commands to the timers or changes of the access
  point are under way (`SlowTimers`); the queue of orders has room for three (`wifi_manager.c:186` asks for
  three); the timer service has room for four commands (FreeRTOS is built with ten). The
  lengths are needed: TLC finds a task blocked on itself with a queue of two where the
  access point stops at once, and a lost timer command with room for two. Losses,
  renewals, failures and power cuts stay, in any number and order. `AloneInv` says that every message
  has at most one reason to be on its way: `Token`, of the load, the attempt
  to connect and the loss there is at most one, which is what holds the device without a
  link together; `Driven`, a device without link, attempt or token has a timer or the
  access point; `RetryOrder` and `LossBehind`, in which order they come; `Room`, the
  orders of each kind that can be queued at once, which add up to three; `ApWaits`,
  `StopInv` and `StartRoom`, what the start and the stop of the access point
  wait for and that the timer's service has room for their commands; `HijackWaits` and
  `StatusHolds`, who is about to correct the DNS server and the status; `Dawn` and
  `Fresh`, the device before it has loaded what was saved.
* `BudgetIsKept` adds `attempts`, the observer of `WifiManagerRetries`, to `AloneInv`.
  `Counted` relates the two counters: `retries` counts the losses handled, so it is equal
  to `attempts` or one ahead (the first loss was that of a connection) while nothing is
  tried, and equal or one behind while an attempt or its loss is under way. `Refreshed`
  says when both are zero, which is not at once: `retries` is reset by the address,
  handled after the connection. `ApTurns` is needed because the task decides whether to
  count a loss by AP_STARTED, which is late in both directions: while an event of the
  access point waits, nothing is tried. `Exhausted` is what is left when the access point
  is ordered. The theorem shows the bound in every state, not only those the property asks about.
* `PollingAlwaysResumes` is inductive with `TypeOK`: the interval is cleared only by
  a step that leaves a request under way, and the end of each request starts it
  or sets `died`.
* `ServedListIsTrue`. Two loop invariants, stated of sequences apart from the state.
  `Reduced(s, r, a, b)`: with record `a` compared up to `b`, a record of `r` is left
  exactly if no earlier record that has been compared with it is of the same network,
  and carries the best signal of those it has absorbed. One has to see that skipping a cleared
  record loses nothing: its network's first record comes before it (`ReducedNext`).
  `Compacts(s, r, a, m)`: of the records before `a`, `m` were kept and stand in front,
  in order (`Moved` is the order-preserving map to where they were), holes behind
  them, the rest untouched. `NextFreeIs` shows that the first hole is the one after those
  kept, so that `total_unique` counts them.
* `NvsStore`. `FetchInv` says that the fields of the configuration that the fetch
  has passed equal those in flash; `SaveInv` that the fields the save has passed
  and could read equal the configuration; `LockInv` who holds the mutex at which
  step. For the refinement, `StoreInv` says what flash can be at each step of a
  save: whole before the name is written, new name and old password after it,
  the new pair after that. The save writes only what differs, so the invariant
  also has to say when a blob is absent (a fresh device, where reading fails but
  a blank needs no writing).
* `ShadowDemo`. The inductive invariant is `IInv`. Its core: in a session
  subscribes and unsubscribes have increasing identifiers fixed by the script,
  an outstanding request or acknowledgment of the two kinds is that of the
  identifier remembered last (`Matching`, `Once`), and the only identifier that
  can belong both to a publish resent from an earlier session and to an
  unsubscribe is 10, which a run that reached it as a publish cannot have left
  behind (`Publishes`). Without the last part a late PUBACK could end the wait of
  an unsubscribe. `Leaving` counts the subscriptions taken back so far.
* `Blufi`. `ConnectedFollows` is again a delayed copy, with requests of the phone and
  retries that change the driver in between. `PhoneReturns` needs the order of start-up
  (`BootInv`: callbacks are registered before the stack can say that it is ready) and
  that the events of a connection and its end that wait for the Bluetooth task
  alternate (`MeetInv`). `HeapOwned` counts the blocks that the two pointers own
  (`OwnInv`) over each path of a negotiation.
* `BleLink`. Five invariants, each resting on those before. `AimInv`: a connection is
  asked for, held or its end waits to be handled, one at a time, and `connect` is set in
  all three. `ServeInv`: the server's start is a chain of
  calls and events of which one is under way at a time (`AtMostOne(Chain)`), and at its
  end advertising, a connection and the end of one that waits exclude each other.
  `DescrInv`: the descriptor is in the attribute table only when the server knows it or
  the event that tells it comes before every request, so a write of it is never taken for
  something else. `TalkInv`: over a connection one request
  of the client is somewhere on its way, on the air, at the server, or as its answer, with the
  notification before the acknowledgement. `AckInv` then carries that order to the
  client's inbox, where a later connection cannot mix with it, since the end of the
  connection is behind the acknowledgement.
* `Nimble`. Packets wait in the order of their numbers, and every one that waits is newer
  than what flash holds (`FreshInv`); while a packet is being saved, the keys before the
  current one are its own (`OrderInv`, `SavedInv`). A power cut empties the queue and keeps
  flash, which preserves both.
* `GattTable`. The hazard is between the phone, which is at some piece of its text, and a
  buffer that lags behind it by all the requests that wait in `inbox` while the callback
  saves or waits for the station. `Leads(n, s)` says that the last of the first `n`
  requests leaves the buffer at stage `s` of a text, or that there is none and the buffer
  is there now (`Reached`). `RequestsFit`: every request that waits `Fits` the stage those
  before it lead to, and all of them lead to where the phone is. So what `HandleExec`
  parses is a whole text (`ParsedWhole`), and `FlashFits` follows it through the two keys.
  The buffer survives the connection: after a lost link (`Broken`) the pieces of a new text
  are written over those of the old one, piece by piece at their offsets, and a whole text
  covers all of them; only ending such a text early leaves halves of two, which is the
  exception in `SavedWasSent`. `TextsInv` is that exception or the three parts.
* `CJson`. The proof is about forests rather than pointers. `Holds(h, F, T, C, P)` says
  that the links of the heap `h` are the forest `F` with the roots `T`, except that the parents
  in `C` do not have their children yet and the first children of those in `P` do not know
  the last. `C` and `P` are empty for the caller's trees. While a call runs they are
  its frames: the parser gives a list its children only at the bracket, and all lists are
  closed only at their end. `IInv` has three parts: the caller's trees are `trees`;
  some forest `W` is what the call that runs has made so far, with `calls` as the places where
  it grows (`InCall`: `Filling`, `Duplicating`, `Parsing`); every item is in one of the two
  or lost (`Parted`), and every string has one owner (`Sane`). In a forest (`IsForest`) each item
  is in one place and every set that contains the roots and is closed downwards has all of
  it: this excludes cycles, and takes the place of induction over depth.

  The lemmas come in layers. First, what `Chain` and `Reached` find in a heap that holds a
  forest (for `Chain`, by the least place at which two walks would differ: `WFMin`, which takes no
  operator). Then what assignments to links do to one list: appending, inserting, removing and
  replacing, at the first place, at the last and between, where the `prev` of the first child
  is a different matter each time. The other lists stay, because no item is in two of them, and
  the forest takes one step (`Attached`, `Detached`, `Swapped`, `Remaining`). `cJSON_Delete` frees
  each item of a tree once with its strings, because there is one way to each (`Starts`): in
  particular when a parser that fails deletes the children of each frame and then the root,
  which does not have them yet. Calls that change no link are done at once (`Alike`), and then
  there is one lemma per action. A reference keeps the first child it was given, so `Refs`
  needs that callers leave alone what is shared (`Container`, `Deletable`). `StepDone` turns a new
  `IInv` and a step of the forest into a step of `JsonForest`.

Each inductive invariant was checked by TLC before it was proved, but that of `CJson`, whose
`W` ranges over all forests: there TLC checked the three properties and `TypeOK`.

Only model-checked: all liveness, outside the prover's reach like ENABLED
(`AlwaysReachableAgain`, `SavedIsRetried`, `ApEventuallyStops`, `VerdictConverges`,
`PanelFollowsDevice`, `Terminates`, `StatusConverges`, `WritesInTheEnd`, `OnlineInTheEnd`,
`FindableAgain`). Every other property that a run checks is the subject of a theorem, some
under the conditions named above.

## 6. What the models show of the code

Behaviours that a reader may not expect, each an execution of a model. The first four
contradict a comment.

* The header says that a lost connection is followed by an attempt
  to reconnect (`wifi_manager.h:73`). A POST that is handled while the device is
  connected sets `REQUEST_STA_CONNECT` and connects no further
  (`wifi_manager.c:1052-1060`). The next lost link is then taken for the failure of
  that request: no retry, no access point. The device stays offline until it is
  restarted. `SoundAtRest` holds in `WmLink`, where nobody posts.
* Orders are processed in the main task's thread
  (`wifi_manager.h:324`), which itself sends some, without a timeout, to the
  queue of three that only it empties (`wifi_manager.c:1172`). With requests of users
  in the queue it blocks for ever; `NeverBlockedOnItself` holds in `WmLink`.
* `code.js:191` says that stopping the interval prevents an answer
  about a previous connection from showing the new request as successful. It
  does not stop a `checkStatus` that is awaiting its answer.
  `VerdictConverges` shows that the page corrects itself if the user waits.
* `shadow_demo_main.c:725` says that a response that is not
  received marks the demo as failed. `shadow_demo_main.c:886` overwrites that mark
  with the result of the disconnection.
* A DELETE handled without a link leaves `REQUEST_DISCONNECT` set
  (`wifi_manager.c:1315`), and a later loss of the link by itself erases the saved
  network (`wifi_manager.c:1153`).
* A POST between a connection and the handling of its address replaces the
  configuration the status and the flash are filled from (`http_app.c:170`): both
  then name a network that is not in use. If the address is handled while the
  POST is still writing, a blank configuration, or a name without its password,
  replaces the saved network, and a status without a name is reported. This is the
  exception in `SavedSurvives`. A failed attempt of that moment is reported with the
  new network's name, until `wifi_manager_connect_async` clears it.
* A POST while the station is connected gets no verdict as long as the link stands and
  its lease is not renewed: the status stays cleared, and the page waits
  (`wifi_manager.c:1052-1060`). `RequestGetsVerdict` has this exception, and says that
  it is the only one.
* With no access points in a scan the list is sent as `[` without its bracket
  (`wifi_manager.c:453-479`): `ServedIsTrue` asks for it of lists that are not empty.
* A request to connect.json that fails leaves polling stopped and OK disabled
  (`code.js:218`, `died` in the model; the comment at line 228 says "regardless of
  result"). A request answered by 400 (an open network has no password, and an
  empty header is refused) waits for ever.
* `gel("loading").display` and `gel("wifi-status").display` (`code.js:315, 321`) set
  no style, so that the panel of an earlier connection stays.
* Two sections can be displayed at once, when the answer to a DELETE arrives
  after another click (`code.js:180`), and an interval whose number was
  overwritten runs for ever (`leaked`).
* With timers that expire while the order that starts the access point is being
  carried out, `AP_STARTED` may come after the connection, whose handler then
  does not start the shutdown timer (`wifi_manager.c:1292`): the access point stays
  on. This is why the runs assume `SlowTimers`.
* The mutex of `nvs_sync.c` is kept after a failed commit
  (`wifi_manager.c:301`). A power cut between the writes of a name and of its
  password leaves a mixture in flash, which the next save repairs
  (`SaveIsComplete`).
* In the shadow demo: a stale delta's version number is taken for its `powerOn`
  (`shadow_demo_main.c:431`); the TLS connection is left open when CONNECT or a
  resend fails (`shadow_demo_helpers.c:824`); `eventCallbackError` is never reset,
  so that no retry can succeed after it (`shadow_demo_main.c:892`); a subscription
  that the broker refuses counts as made (`shadow_demo_helpers.c:639`), and the
  script then waits for messages that cannot come.
* In `gatt_server_service_table`: the callback waits for ever for a station that has no
  network to join, when flash holds no SSID (`Stuck`); a cancelled long write is
  parsed and saved like an executed one; the buffer of a write broken off stays for the next
  connection, where a cancelled or empty execute can save a pair of two texts; a
  failed `nvs_set_blob` counts as stored.
* In `esp_nible_test` the phone is answered whatever has been saved, and a failed
  `ble_gap_adv_start` leaves the device silent. So does a start of advertising that
  fails in `gatt_server` (`gap_gatt_handler.c:41`) or in `gatt_server_service_table`
  (`gatts_table_creat_demo.c:252`): it is logged. `ServerFindable` and `OnlineInTheEnd`
  except it.
* `cJSON_AddItemReferenceToObject` does not free the reference when it cannot add it.

## 7. Not modelled, and why

* Vendored, generated and example code, and the firmwares of 2.5.
* `json.c` and the text of numbers and strings in `cJSON.c`: pure formatting.
  `cJSON_Compare` and `cJSON_Minify` change no item.
* In `WifiManager`: user callbacks (`cb_ptr_arr`), which belong to an application;
  the custom handlers of the web server, likewise; the driver's other events,
  which only log; addresses, signal strengths and the fields of the settings that
  no decision reads. The life cycle of the web server's URLs and of the DNS task with
  its socket: `http_app_stop` and `dns_server_stop` end a task in the middle of what it
  does, and what happens inside ESP-IDF then is not in this repository.
  A failed fetch (`wifi_manager.c:340-363, 1030-1038`) counts as an empty flash;
  `NvsStore` looks inside it.
* In `ShadowDemo`: TLS and its back-off, JSON parsing except whether it succeeds,
  the keep-alive.
* In `PortalPage`: the refreshing of the list of networks, the credits and the
  dialog before a disconnection, texts.
* In `Blufi`: the names and passwords themselves, the settings of the soft access
  point; DH, AES and CRC are library code of which only success is modelled. A phone
  that asks for a mode that does not exist makes `ESP_ERROR_CHECK(esp_wifi_set_mode)`
  abort (`blufi_example_main.c:308`), and the device restarts: the modes of the model exist.
* In `GattServer` and `GattTable`: connection parameters, values of attributes that
  nobody decides on, the contents of notifications and indications. In `GattTable`,
  two crashes over the content of a text: an executed text of more than 256 bytes is copied
  into `temp_buff[256]` (`gatts_table_creat_demo.c:447-448`), and a `ssid` or `pass`
  that is no JSON string has no `valuestring` to measure (`cjson_parser.c:28-33`). The
  texts of the model are short, and their values strings.
* In the models of flash: the heap blocks and handles a failed call keeps.

## 8. Plan

Built, in this order: the wifi_manager task, its flash and its page; the shadow demo;
blufi; the GATT pair; the two other provisioning firmwares; cJSON; the list of access
points. What would come next:

1. `PortalServices`: starting and stopping the web server with its URLs
   (`http_app.c:358-479`) and the DNS task with its socket (`dns_server.c`), against
   requests being served, with the behaviour of `httpd_stop` as an assumption. Promise:
   no handler reads a URL that was freed; a service that was stopped and started answers.
2. `PowerMeter`: pulses that arrive between the read and the reset of a counter.
3. Proofs: `Nimble` as an implementation of `CredentialStore` between interruptions.
