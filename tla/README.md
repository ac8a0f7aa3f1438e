# AirShifter firmware: specifications, checks and proofs

The firmware (`src/main`, ESP-IDF, NimBLE) lets a phone control a fan over BLE:
it connects, proves that it has the device's key, writes control registers or
packets, and provisions the Wi-Fi credentials the device then connects with.
This directory holds TLA+ specifications of its parts, the TLC configurations
that check them on small instances, and TLAPS proofs.

## 1. Inventory

Two tasks run the program's logic. The **NimBLE host task** runs every BLE
callback (`bleprph_gap_event`, `gatt_svc_access`) to its end before the next
one, with the session table, the parser and the registers called from it. The
**Wi-Fi manager task** takes credentials from a queue of two, stores them in NVS
and drives Wi-Fi. The queue is all they share. A third task, of the default
event loop, runs the handlers of mesh and IP events, which tell the program
where in the mesh it is.

| Component | State | Operations | Talks to | Hard behaviour | What makes it correct |
|---|---|---|---|---|---|
| Session security, `security.c` | `s_conns` (3 slots), key, nonce length | connect, answer, is-authenticated, clear, read nonce | called by GAP and GATT handlers | table full, handles used again, expiry, one shared `auth_value` buffer | one session per connection, its own challenge, earned and expiring authentication, no leaks |
| BLE GAP and start-up, `main.c` | NimBLE's connections, advertising, sync | sync, reset, connect, disconnect, advertise | NimBLE; calls security, biz_logix | events while out of sync, advertising that stops by itself | advertises whenever it can, clears up after every connection |
| GATT server, `gatt_svr.c` | attribute handles, `auth_value` | reads, register writes, packet writes, authentication | calls security, parser, biz_logix | checks at the time of use, width of integers | only entitled connections change anything; an acknowledged write is applied |
| Packet parser, `parser.c` | none | JSON pass, legacy search | calls biz_logix | tokens consumed in step, values cut to their buffers, keys found inside other words | every setting applied, in order, and nothing else |
| Registers, `biz_logix.c` | control and status registers, an older authentication table | setters, notifications, post credentials | NimBLE notifications; the queue | notifications sent later, truncation, waiting for room | subscribers know the value that was set; the host task is never stuck |
| Wi-Fi manager, `wifi_manager.c` | queue, `cred`, NVS, driver | load, receive, store, start | NVS, esp_wifi; fed by biz_logix | power failure between writes, calls that fail, order | order kept, NVS and driver agree, queued credentials take effect |
| Mesh events, `wifi_manager.c:147` | layer, parent, connected flag | one handler per event | esp_mesh, DHCP client | events handled after the mesh has moved on; values asked for then, mixed with values of the event | once the events are through, the program knows link, layer and parent; the root asks for an address over the link it has |
| MQTT, `mqtt.c` | client, its properties | event handler | - | - | never started (`wifi_manager.c:535` is a comment) |
| Firmware update, `FOTA.c` | update flag in NVS | check at boot, update, restart | NVS, HTTP | - | not built |
| `parser-oldbitch1.c`, ping in `main.c:164`, `jsmn.h`, `sdkconfig`, `certs`, logs | | | | | superseded, uncalled, third-party, configuration |

PROJECT.json lists the components with their status, and every hazard at its
line with the properties that would show it going wrong.

## 2. Modules

| Module | Models | State and actions |
|---|---|---|
| `Session` | what security promises a connection, without a table | a session record for each peer: idle, refused, challenged, authenticated, and what its peer has proved; `Open`, `Refuse`, `Read`, `Prove`, `Close` |
| `Security` | `security.c` | `conns` is `s_conns`; one operator for each exported function and helper (`SecOnConnect`, `SecHandleAuthResponse`, `FindEntry`, `AllocEntry`, ...); `Connect`, `Disconnect`, `ReadNonce`, `AuthResponse` are the callers in `main.c` and `gatt_svr.c`; `challenge` and `proved` are history: what a connection was given, and the nonces its clients answered with the device's key. Implements `Session` |
| `SecurityProofs` | - | theorems about `Security` |
| `SessionProofs` | - | `Security` implements `Session` |
| `Provisioning` | what provisioning promises, without tasks and failures of calls | a line of posted credentials, those in hand, saved and in use; `Post`, `TurnAway` (the newest, when the line is full), `Take`, `Save`, `Join`, `Recall`, `Restart`, `Erase` |
| `WifiManager` | `biz_apply_wifi_credentials` and the manager task | `pc` is the call the task is at; one action for each call into NVS and esp_wifi, each with its error path; `sender` is the host task blocked in `xQueueSend`; `PowerFailure` at any step. Implements `Provisioning` |
| `WifiProofs`, `ProvisioningProofs` | - | theorems about `WifiManager`; it implements `Provisioning` |
| `Mesh` | `mesh_event_handler`, `wifi_event_handler` and the start of the mesh in `wifi_manager_task` | `is_mesh_connected`, `mesh_layer`, `mesh_parent_addr` as in the code, `dhcp` the link the DHCP client was last started for; `events` the event loop, `stack` the mesh stack. One operator for each branch of the handler; `Linked`, `LinkLost`, `Moved`, `MeshStop`, `Noticed` are the stack |
| `MeshProofs` | - | theorems about `Mesh` |
| `Parser` | `parser.c` | operators only, over words that are sequences of characters: `TokenEqualsKey`, `TokenToCstr`, `TokenToInt`, `Strstr` are the functions of that name; `Gather` is the second loop over the tokens and `GatherToken` one round of it, `Legacy*` the searches, `ParserHandlePacket` the whole, which yields the setters called and the credentials posted |
| `MCWords` | - | the characters, spellings and numerals the runs give `Parser` |
| `ParserProofs` | - | theorems about `MCParser`, which builds packets pair by pair and states what they ask for |
| `BizLogix` | registers, setters, notifications | `ctrl`, `stat`; NimBLE's subscriptions, pending notifications and what clients were told |
| `BizAuth` | the table `g_auth_table` of `biz_logix.c` | `authTable`; one operator for each function. The program calls `biz_clear_auth` only |
| `Biz` | `biz_logix.c` as a whole | `BizLogix` and `BizAuth` over the same connections: a disconnection ends subscriptions and gives the row back |
| `BizProofs` | - | theorems about `Biz` |
| `GattServer` | GAP events, advertising and `gatt_svc_access` | extends `Security`, and composes it with `Parser`, `BizLogix` and `BizAuth` by INSTANCE; adds `synced`, `advertising`, the last response and the credentials posted; each callback conjoins the step of `Security` it causes |
| `AirShifter` | the device | `GattServer` and `WifiManager` over one queue: a packet with credentials is a write and a post in one step; `lost` are links whose end waits for a host task that is blocked; a power failure restarts both sides |
| `AirShifterProofs` | - | theorems about `GattServer`, from those about `Security`; every step of the device is one of `GattServer`, one of `WifiManager`, or both, and the device implements `Session` and `Provisioning` |

`MC*` modules give the constants values; each `.cfg` is one run. Operators whose
comment begins "Mutant" are not part of a specification: each changes one
definition the way a plausible bug would, and shows that a property notices.

What was abstracted, and why that is sound for the properties:

- A nonce is the number of its draw, since `esp_random` is taken never to
  repeat 128 bits. The HMAC is the pair of key and nonce.
- A client answers the nonce it read last, under any key; it keeps the nonce over
  a reconnection, so answers to old nonces and answers with a wrong key occur.
  `proved[h]` remembers the nonces that were answered with the key the device had
  at the time, whichever slot the search found, so that the properties can ask
  for the right key without asking how the code looks for it.
- `security.c:81` can not fail, because `sec_set_nonce_len` keeps the length
  within a slot (proved: `TypeCorrect`), so that path has no action.
- Handle 0 is a handle like any other in all modules; a client that has it may
  also answer the empty nonce of a free slot, which is what the search finds for
  it (`Answers`). The properties of `Security` are about the handles the table can
  tell from a free slot (`Proper`), because `security_handle_zero` shows that they
  fail for 0; `OnlyEntitledChange` is about all of them, see section 4. The run
  `air_shifter` has handles 1 and 2 only, for the size of it; that the property
  holds of handle 0 too is the theorem `EntitledOnly`.
- A packet is a form and a sequence of pairs, and a word is a sequence of
  characters. Words are compared without regard to case, cut to the buffers they
  are copied to (`TokenToCstr`), searched with `strstr` at every position
  (`Occurrences`), skipped and read up to a delimiter, all character by character.
  What the characters are is left to the constants: `Spelling` gives each key its
  characters, `LowerOf` is `tolower`, `IntOf` says which sequences `strtol` takes
  for a number, and the proofs hold for all that satisfy `SpellingAssumption` and
  `IntOfAssumption`. The runs let a few letters that the words have in common be
  one character (`MCWords`): `password` is `pa`, `ss`, `word` and holds `pass`, and
  `passid` holds `ssid`. In the text form every pair ends with a comma.
- The text of a nested object, which no key of the program takes for its value, is
  one character (`Braces`), and the braces around a packet are left out: they are
  part of no key, and would follow a value only in a JSON packet that falls
  through to the legacy search.
- `JsmnTokenMax` is `JSMN_TOKEN_MAX`, 128 in the code: a packet with more tokens is
  an error of jsmn, and goes to the legacy search.
- The JSON pass and the legacy search are the operators of one step, because
  the host task runs them without interruption. The first loop of
  `parser_handle_packet_json` has no effect and is left out.
- `biz_set_*` hand notifications to NimBLE, which sends them later with the
  value of that time; this is in `BizLogix` and `Biz` only, and `GattServer` has
  the registers without subscribers.
- `resp` is the answer to a write, success or an error; the error codes are not
  told apart. Reads of registers and descriptors change nothing and have no
  action, but for the read of the nonce, which the client remembers.
- After a restart clients keep the nonces they hold and `esp_random` goes on to
  give new ones; handles and times start again.
- esp_mesh is closed source and is modelled by how the handler uses it: every
  change of link or layer is followed by one event, in order; the events that
  come with a value carry the one of that change; a node that becomes root does
  so with a link to the router (`PARENT_CONNECTED` with layer 1), not by a
  `LAYER_CHANGE`; `ROOT_SWITCH_ACK` and the events that are only logged change
  neither parent nor layer.
- Credentials are the number of the message they came in, and lengths. The
  lengths 0 and the greatest accepted one are enough for the checks the code
  makes. An SSID of length 0 does reach the manager: a JSON packet with two SSID
  keys, the second of them empty, posts one.
- `nvs_set_str` may write at once or when committed, which is what NVS leaves
  open; other keys of NVS are left out.
- In `GattServer` the default nonce length is kept, as nothing calls
  `sec_set_nonce_len`; `Security` has the setter with all its values.
- `ble_gap_adv_start` fails without sync or without room for a connection; other
  failures are not modelled (the code logs them and waits for the next event).

## 3. Runs

| Run | Checks | Shows | Bounds and why they are enough |
|---|---|---|---|
| `security` | `TypeOK`, `SlotsMatchConnections`, `AuthAnsweredOwnChallenge`, `AuthWithinLifetime`, `SessionSurvivesOthers`, `ReadsOwnChallenge`, `ImplementsSession` | the table follows the connections; authentication is earned by answering this connection's challenge with the device's key, and expires; nobody disturbs another's session; the table implements `Session` | 3 connections and 2 slots: the table is full and someone is turned away; 3 draws: a handle is used again while another is connected; 2 keys, each a client's or the device's; lifetime 1 and clock 2: before and after expiry; nonce lengths too short, right and too long |
| `security_handle_zero` | `PerConnectionState` (violated) | the slot of handle 0 is given away | handles 0 to 2 |
| `wifi_manager` | `TypeOK`, `PipelineOrder`, `AtRestAgrees`, `QueuedTakesEffect`, `HostTaskReturns`, `ImplementsProvisioning` | credentials keep their order; NVS and driver agree after a good turn; queued credentials take effect; the host task returns; only the newest are ever turned away | 4 messages: two in the queue, one in the manager, one blocked; valid and invalid lengths; one power failure and one failing call, at any step |
| `wifi_torn` | `LoadsSavedPair` (violated) | an SSID with another one's password is loaded at boot | 2 messages, 2 power failures, 1 failure |
| `wifi_cut` | `DriverHasWholeSsid` (violated) | the longest SSID reaches the driver cut | lengths 1 and 2 in a field of 2 |
| `parser` | `JsonAppliedWhole`, `TextMeansTheSame` | all packets of up to three pairs are applied as written, as far as there is room | rooms of 2 characters for text and 3 for numbers: words that fit, that just fit and that are cut; keys in a case of their own; keys inside keys and values, whose packets `KeysStandAlone` tells apart; three pairs: a key before and after any other; nested objects; repeated keys; packets without their end; room for the 7 tokens of three pairs and no more, so that the longest packet fills it. That more pairs change nothing is proved |
| `parser_unknown` | `UnknownKeysIgnored` (violated) | the value of an unknown key is read as a key | two pairs |
| `parser_fallback` | `JsonCredentialsOnly` (violated) | `{"ssid":""}` provisions the SSID `:` | two pairs |
| `biz` | `TypeOK`, `SubscribersKnow`, `TableRemembersProofs` | subscribers are told what was set; the older table is right about every connection | 3 connections on 2 rows: full table, rows and handles used again; one of them subscribes, since subscribers share nothing but the registers; ints of 3 bits, bytes of 1: negative values, truncation, both kinds of register |
| `mesh` | `TypeOK`, `SettledAgrees`, `RootHasFreshLease`, `LinkIsReported` | the program's view of the mesh is right once the events are through | two parents, three layers (root, child, and one to move to); more events waiting than one link causes, so that a link is lost and found again before the first event is handled |
| `air_shifter` | `AdvertisesWhenItCan`, `SessionsFollowHost`, `OnlyEntitledChange`, `LostLinkIsCleared` | the whole device | 2 connections, all the controller takes; 2 keys, one of them wrong; 2 draws, so that an old nonce is answered on a new connection; a queue of 1 and 2 messages: with the manager busy or hung the second blocks the host task; one power failure, host resets and lost links at any time; a clock past the lifetime; one packet that sets a register and posts credentials |
| `gatt_ack` | `AckedWriteApplied` (violated) | a write with the top bit set is acknowledged and ignored | ints of 2 bits |

The bounds `MaxClock`, `MaxDraws`, `MaxSerial`, `MaxBoots`, `MaxFails` and
`MaxPairs` are guards named in the modules; behaviours stop there, which is why
deadlock is not checked. (An idle device waits for an event as well.)

**Fairness.** `WifiManager`, `Mesh` and `AirShifter` have liveness properties.

- `WifiManager!FairSpec` assumes weak fairness of `SenderStep`: `xQueueSend` waits
  at most 50 ms, so the host task goes on whether there is room or not, and
  `HostTaskReturns` needs nothing else: the manager may hang in any of its calls.
  `QueuedTakesEffect` has the fairness of the manager as its premise
  (`ManagerRuns`): FreeRTOS schedules it, at priority 5, and the NVS and esp_wifi
  calls return. Nothing is assumed of clients, power failures or failing calls;
  the property ends with the first of the latter two.
- `Mesh!FairSpec` assumes weak fairness of `HandleEvent`: the task of the event
  loop runs and the handlers do not wait for anything. The mesh stack owes
  nothing: links may come and go, or not.
- `AirShifter!FairAirSpec` assumes weak fairness of `Blocked`, for the same reason
  as above, and of `Disconnected`: a host task that is not blocked takes the
  events that wait for it. The Wi-Fi manager owes nothing.

## 4. Proofs

TLAPS proves, for every value of the constants that satisfies the named
assumptions of the modules (`SecurityAssumption`, `WifiAssumption`,
`AirAssumption`, `MeshAssumption`, `BizAssumption`, `BizAuthAssumption`; of the
parser `CharacterAssumption`, `RoomAssumption`, `SpellingAssumption`,
`IntOfAssumption` and `WordsAssumption`, which say that characters are strings,
that buffers have room for a character, that keys and numerals hold no delimiter,
and that two spellings of the same letters mean the same):

| Module | Theorem | Property |
|---|---|---|
| `SecurityProofs` | `TypeCorrect` | `TypeOK` |
| | `SlotsMatchAlways` | `SlotsMatchConnections` |
| | `AuthAnswered` | `AuthAnsweredOwnChallenge` |
| | `AuthExpires` | `AuthWithinLifetime` |
| | `SessionsSurvive` | `SessionSurvivesOthers` |
| | `ReadsOwn` | `ReadsOwnChallenge` |
| `SessionProofs` | `Refinement` | `ImplementsSession` |
| `WifiProofs` | `TypeCorrect`, `PipelineOrdered`, `AtRestAlwaysAgrees` | `TypeOK`, `PipelineOrder`, `AtRestAgrees` |
| `ProvisioningProofs` | `Refinement` | `ImplementsProvisioning` |
| `MeshProofs` | `TypeCorrect`, `SettledAlwaysAgrees`, `RootAlwaysHasFreshLease` | `TypeOK`, `SettledAgrees`, `RootHasFreshLease` |
| `BizProofs` | `TypeCorrect`, `SubscribersAlwaysKnow`, `TableAlwaysRemembers` | `TypeOK`, `SubscribersKnow`, `TableRemembersProofs` |
| `ParserProofs` | `JsonAlwaysAppliedWhole`, `TextAlwaysMeansTheSame` | `JsonAppliedWhole`, `TextMeansTheSame` |
| `AirShifterProofs` | `SessionsAlwaysFollowHost`, `AdvertisesAlways`, `EntitledOnly` | `SessionsFollowHost`, `AdvertisesWhenItCan`, `OnlyEntitledChange` |
| | `DeviceIsBle`, `DeviceIsPipeline` | the device's behaviours are behaviours of `GattServer` and of `WifiManager` |
| | `DeviceSessionsFollowHost`, `DeviceAdvertises`, `DeviceEntitledOnly` | the three properties of `GattServer`, of the device |
| | `DeviceImplementsSession`, `DeviceImplementsProvisioning` | `ImplementsSession`, `ImplementsProvisioning`, of the device |
| | `DevicePipelineHolds` | `PipelineOrder` and `AtRestAgrees`, of the device |
| | `LostLinksAreHeld` | a lost link's session is still there |

**Security.** `TypeOK` is inductive by itself. `SlotsMatchConnections` is inductive
with it: `SlotMatchFrame` says that a step that leaves the slots and the history
of `h` alone keeps `SlotMatches(h)`, `ConnectMatch` and `DisconnectMatch` treat the
two actions that do not, for the connection itself and for the others; that a
slot taken is one nobody owned is `ConnectTakesFreeSlot`.
`AuthAnsweredOwnChallenge` says that a connection is authenticated only if its
client answered this connection's challenge with the device's key. It is not
inductive, because `SecIsConnAuthenticated` forgets a flag when its nonce expires;
`FlagAnswered` says of the flag itself that the nonce of its slot was answered with
the key, handle 0 included, and is inductive. `AuthWithinLifetime`,
`SessionSurvivesOthers` and `ReadsOwnChallenge` follow from these invariants
without induction. `Refinement` needs `TypeOK`,
`SlotsMatchConnections` and that a slot without a nonce holds 0 (`BlankSlots`):
because a connection owns at most one slot (`OneSlotAtMost`), the `CHOOSE` in the
refinement mapping has one possible value, and each operation has a lemma that
names the step of `Session` it takes, or shows that it takes none.

**Wi-Fi.** `PipelineOrder` compares what waits with what is in NVS, in hand and
in the driver; it is inductive only with the fields of the records in their
range and with bounds by `serial`, and `AtRestAgrees` only with a conjunct for
every step of a turn that says how far NVS and driver agree by then. `WifiInv`
is that conjunction. The refinement uses it: a step of the two tasks is one of
`Provisioning` or changes nothing it can see. SSID and password are not written
together, so that what is saved is the SSID's number; the pair itself is the
subject of `wifi_torn`.

**Mesh.** `SettledAgrees` speaks of an empty event loop. `MeshInv` generalises it
to any queue: the newest event of each kind that waits will set what it sets to
the stack's present value, and where none waits, that value is already the
program's. A post makes the new event the newest; handling one either leaves a
newer one behind or sets the value.

**Registers.** `SubscribersKnow` compares what a client was told, which is the
status register, with the control register; `RegInv` adds that the two are
equal. `StoredIsNotified` says that a register a setter changes is notified to each
of its subscribers. `AuthInv`, for the older table, is `TableRemembersProofs`
with the types: a row taken by a query was free (`RowForConnection`), so that
nobody loses one.

**BLE side and device.** Every callback is one step of `Security` or none
(`BleNextNext`), so the invariants of `SecurityProofs` hold of `BleSpec` by
projection. `OnlyEntitledChange` then follows: an access that changes a register
found the connection authenticated (`RefusedChangesNothing`), and who is
authenticated has answered, with the device's key, the challenge of its own
connection, which is young enough (`AuthenticatedIsEntitled`). For handle 0 that
cannot be said, as its connection owns no slot and may be found in one an earlier
connection with this handle was challenged in; `Entitled(0)` asks for a right
answer of a client with this handle, and no more.
`AirNextBle` and `AirNextWifi` project a step of the device onto its two sides.

The device implements both abstract specifications: `Session` because its BLE
side implements `Security`, `Provisioning` because its other side is the pipeline
of `WifiManager` (`SamePipeline` says that the instance in `AirShifter` and the
one the theorems come from define the same actions).

**Parser.** The two theorems are about packets of any length over any sequences
of characters, where the run has three pairs. A packet is built by `Spec`, but
what the parser makes of it is a function of the packet alone, so that the
invariant that has to be inductive is only `PacketTyped`; the rest is about the
operators.

- *JSON.* The loop invariant is `Gathered`: after the rounds of the first `n` pairs
  the calls are those of the control keys among them, in order, and SSID and
  password are the last ones there, cut. One pair is two rounds of the loop
  (`GatherTwoRounds`): either the key consumes its value, or the value is looked at
  and, as it is no key (`~KeyLikeValue`), does nothing. `GatherAll` is the induction
  over `n`; `SetInduction` states it for a set of naturals, from the library's
  `NatLessThanWellFounded`, because the provers cannot instantiate a theorem
  about a predicate. `CallsOf` is proved with the enumeration `Gathered` carries
  along, and `CutKept` says what a cut leaves: as much as there is room for.
- *Text.* `Laid` says where in the characters each pair starts, again by induction
  (`FlattenPlaces`), and `TextPlaces` that its key, the colon, its value and the
  comma stand there and nothing else does. A key can be found inside a key or a
  value only if it occurs in that word (`Inside`, because keys hold no delimiter),
  so that in a packet with `KeysStandAlone` `strstr` finds each key at its pair and
  nowhere else (`OnlyKeysFound`, `KeyFound`). What follows it is the value
  (`AfterKeyReads`), which is taken up to its end and cut (`ExtractStr`) or read as
  a number (`ExtractInt`); and as the other spellings of the setting are not found,
  the order in which the code tries them does not matter (`OneOfKind`).

`TextMeansTheSame` is about texts in which keys stand alone, and says so in three
conditions. `KeysStandAlone` is what `strstr` needs: no key the search looks for
occurs inside another key or a value. Without it the claim is false of the code:
in `cmd:Lightning,Light:1` the light is not set, in `SSID:home,pass:MyPASSword` the
password is `word`, and `password` itself always reads as `pass`; the run reaches
such packets (`Light` in a value, `pass` and `ssid` in `passid`), and without the
condition TLC finds them at once. `ValuesPlain` keeps the delimiters that end a
value out of it, and `DistinctSettings` a setting from coming twice.

The proof needed what the run had not: two SSID keys of different spelling
(`SSID` and `Wifi`, say) are one setting to the JSON pass, which takes the last,
and two to the legacy search, which takes them in its own order.
`DistinctSettings` says so now, and the run has `Wifi` among its keys.

Model-checked only: the liveness properties (`QueuedTakesEffect`,
`HostTaskReturns`, `LinkIsReported`, `LostLinkIsCleared`). They need fairness and
ENABLED, which are beyond the prover. Every invariant, action property and
refinement of a passing run has a theorem. The six violated properties have
counterexamples instead.

## 5. Disagreements between code and comments

Each violated property states what a comment, a header or a name says; the
counterexample is what the code does. PROJECT.json quotes the lines. In short:
handle 0 shares the mark of a free slot; SSID and password are stored one after
the other; a 32-character SSID is copied into 31; the value of an unknown key is
read as a key; a JSON packet can reach the legacy search; a negative cast is
acknowledged.

## 6. Not modelled

- **MQTT** (`mqtt.c`): built, but `mqtt5_app_start` is called by nothing; the call
  in `wifi_manager.c:535` is a comment. There is no state of the program in which
  its handler runs. The same holds for the **ping command** (`main.c:164`) and
  for the parser's wrapper for MQTT payloads (`parser.c:358`).
- **Firmware update** (`FOTA.c`): not built and called by nothing; it keeps its
  state through `nvs_blob_rw.h`, which is not in the repository.
- **`parser-oldbitch1.c`**: superseded; the linker takes `parser.c`.
- **Loss of the access point**: the retries of `wifi_event_handler` are commented
  out and no handler is registered for `WIFI_EVENT`; esp_mesh reconnects, out of
  reach of this code. `Mesh` has the loss and the new link as its environment.
- **Pairing, MTU and connection parameters**: the handlers log, or tell NimBLE to
  delete a bond and go on.
- **`jsmn.h`, build files, configuration, certificates**: third party, or without
  behaviour. `Parser` takes the tokens jsmn promises.

What could still be added: failures of `ble_gap_adv_set_fields` and of
`ble_gap_adv_start` for want of resources, after which the device is silent until
the next event (`main.c:401`, `main.c:422`); the keys that `strstr` finds inside
other words are in `Parser` but no property asks for another meaning of such
texts, as no comment describes the older clients' keys; `Mesh` and `AirShifter`
are checked separately, as they share no state but the start of the manager task.

## 7. Running

    tlc -config MCSecurity.cfg MCSecurity
    tlapm SecurityProofs.tla

Each run is a module and a `.cfg` listed in PROJECT.json; together they take
about fifteen minutes on two workers. The other proof modules are checked the same
way.
