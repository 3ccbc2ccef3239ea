--------------------------- MODULE LidarHandshake ---------------------------
(***************************************************************************)
(* How the driver brings a LiDAR to the sampling state: its configuration  *)
(* is parsed (parse_livox_lidar_cfg.cpp), a slot is registered for it      *)
(* (cache_index.cpp, InitLivoxLidar), the SDK announces it, the driver     *)
(* asks for the configured settings and counts the answers                 *)
(* (livox_lidar_callback.cpp).  Only a sampling device is published.       *)
(*                                                                         *)
(* The SDK runs its callbacks one at a time; config_mutex_ makes the ones  *)
(* that touch set_bits atomic in any case.  What a request does to the     *)
(* LiDAR, and when its answer comes, is up to the SDK and the network.     *)
(***************************************************************************)
EXTENDS Integers, Sequences, FiniteSets

CONSTANTS Lidars,    \* handles of the LiDARs in the network
          NoHandle,  \* the handle 0 of a device that has no entry
          Items,     \* the settings a bit of set_bits stands for
          Entries,   \* user_configs: [handle, items], items the members present
          MaxLidars, \* kMaxSourceLidar
          MaxInfo    \* bound: announcements by the SDK

Slots == 0..(MaxLidars - 1)
Other == {"attitude", "mode", "imu"}   \* requests that no bit stands for
Kinds == Items \cup Other
Handles == Lidars \cup {NoHandle}
Unset == -1

ASSUME HandshakeAssumption ==
  /\ MaxLidars \in Nat \ {0} /\ MaxInfo \in Nat
  /\ NoHandle \notin Lidars
  /\ Items \cap Other = {}
  /\ Len(Entries) \in Nat
  /\ \A k \in DOMAIN Entries :
       /\ Entries[k].handle \in Lidars
       /\ DOMAIN Entries[k].items \subseteq Items

VARIABLES
  entry,      \* next of user_configs to register
  mapIndex,   \* map_index_: registered LiDAR -> slot
  indexCache, \* index_cache_: slots in use
  config,     \* per slot, livox_config: [handle, values]
  setBits,    \* per slot, set_bits
  sampling,   \* per slot, connect_state is kConnectStateSampling
  pending,    \* requests the SDK has not answered yet
  infos,      \* announcements so far
  asked,      \* history: [lidar, item, value] of every setting asked for
  acked,      \* history: <<lidar, kind>> of every success
  refused     \* history: <<lidar, kind>> of every refusal

registryVars == <<mapIndex, indexCache, config>>
handshakeVars == <<entry, registryVars, setBits, sampling, pending, infos,
                   asked, acked, refused>>

\* lidars_ is part of a static object: a slot starts zeroed.
ZeroConfig == [handle |-> NoHandle, values |-> [i \in Items |-> 0]]

HandshakeInit ==
  /\ entry = 1
  /\ mapIndex = <<>> /\ indexCache = {}
  /\ config = [s \in Slots |-> ZeroConfig]
  /\ setBits = [s \in Slots |-> {}]
  /\ sampling = [s \in Slots |-> FALSE]
  /\ pending = [r \in Handles \X Kinds |-> 0]
  /\ infos = 0
  /\ asked = {} /\ acked = {} /\ refused = {}

-----------------------------------------------------------------------------
(* Parsing: every setting goes through an eight-bit integer, and -1 is a    *)
(* setting that is not to be asked for.                                     *)
Int8(v) == ((v + 128) % 256) - 128

Parsed(e) ==
  [handle |-> e.handle,
   values |-> [i \in Items |-> IF i \in DOMAIN e.items THEN Int8(e.items[i]) ELSE Unset]]

Requested(s) == {i \in Items : config[s].values[i] # Unset}

(* GetFreeIndex: the slot of a known LiDAR, or the first free one.          *)
Registered(l) == l \in DOMAIN mapIndex
FreeSlots == Slots \ indexCache
HasIndex(l) == Registered(l) \/ FreeSlots # {}
IndexFor(l) ==
  IF Registered(l) THEN mapIndex[l]
  ELSE CHOOSE s \in FreeSlots : \A t \in FreeSlots : s <= t

\* Slip: the slot is not marked as taken.
MarksNothing(l) == indexCache

Marked(l) == indexCache \cup {IndexFor(l)}

GetFreeIndex(l) ==
  /\ HasIndex(l)
  /\ mapIndex' = [x \in DOMAIN mapIndex \cup {l} |->
                   IF x = l THEN IndexFor(l) ELSE mapIndex[x]]
  /\ indexCache' = Marked(l)

(* InitLivoxLidar registers the entries, a repeated one over the first.     *)
RegisterEntry ==
  /\ entry <= Len(Entries)
  /\ entry' = entry + 1
  /\ LET e == Entries[entry] IN
       \/ /\ GetFreeIndex(e.handle)
          /\ config' = [config EXCEPT ![IndexFor(e.handle)] = Parsed(e)]
       \/ ~HasIndex(e.handle) /\ UNCHANGED registryVars
  /\ UNCHANGED <<setBits, sampling, pending, infos, asked, acked, refused>>

-----------------------------------------------------------------------------
(* LidarInfoChangeCallback.                                                 *)
Send(requests) ==
  pending' = [r \in DOMAIN pending |-> pending[r] + (IF r \in requests THEN 1 ELSE 0)]

Announced == entry > Len(Entries) /\ infos < MaxInfo /\ infos' = infos + 1

\* A LiDAR without an entry gets a slot, if there is one, and no settings.
InfoOfUnknown(l) ==
  /\ Announced
  /\ ~Registered(l)
  /\ \/ GetFreeIndex(l) /\ Send({<<l, "mode">>, <<l, "imu">>})
     \/ ~HasIndex(l) /\ UNCHANGED <<mapIndex, indexCache, pending>>
  /\ UNCHANGED <<entry, config, setBits, sampling, asked, acked, refused>>

\* A registered one is asked for every setting of its slot.
InfoOfRegistered(l) ==
  /\ Announced
  /\ Registered(l)
  /\ LET s == mapIndex[l] IN
       /\ setBits' = [setBits EXCEPT ![s] = @ \cup Requested(s)]
       /\ Send({<<l, k>> : k \in Requested(s) \cup {"mode", "imu"}}
                 \cup {<<config[s].handle, "attitude">>})
       /\ asked' = asked \cup {[lidar |-> l, item |-> i, value |-> config[s].values[i]] :
                                 i \in Requested(s)}
  /\ UNCHANGED <<entry, registryVars, sampling, acked, refused>>

-----------------------------------------------------------------------------
(* The answers.  A request that is repeated stays pending.                  *)
Settle(r) == pending[r] > 0 /\ pending' = [pending EXCEPT ![r] = @ - 1]
Repeat(r) == pending[r] > 0 /\ UNCHANGED pending

AnswerLocal == UNCHANGED <<entry, registryVars, infos, asked>>

\* Slip: a success counts for every setting.
BitsAfterAny(s, item) == {}

BitsAfter(s, item) == setBits[s] \ {item}

\* Set...Callback with success: the last bit to go starts the sampling.
ItemAccepted(l, item) ==
  /\ Settle(<<l, item>>)
  /\ LET s == mapIndex[l] IN
       /\ setBits' = [setBits EXCEPT ![s] = BitsAfter(s, item)]
       /\ sampling' = [sampling EXCEPT ![s] = @ \/ setBits'[s] = {}]
  /\ acked' = acked \cup {<<l, item>>}
  /\ UNCHANGED refused /\ AnswerLocal

\* Slip: a request that timed out is given up.
GivesUp(r) == Settle(r)

RetriesItem(r) == Repeat(r)

ItemTimesOut(l, item) ==
  /\ RetriesItem(<<l, item>>)
  /\ UNCHANGED <<setBits, sampling, acked, refused>> /\ AnswerLocal

\* A refusal is reported and leaves its bit set.
ItemRefused(l, item) ==
  /\ Settle(<<l, item>>)
  /\ refused' = refused \cup {<<l, item>>}
  /\ UNCHANGED <<setBits, sampling, acked>> /\ AnswerLocal

\* WorkModeChangedCallback repeats the request whatever went wrong.
RetriesMode(r) == Repeat(r)

ModeFails(l) ==
  /\ RetriesMode(<<l, "mode">>)
  /\ UNCHANGED <<setBits, sampling, acked, refused>> /\ AnswerLocal

ModeAccepted(l) ==
  /\ Settle(<<l, "mode">>)
  /\ acked' = acked \cup {<<l, "mode">>}
  /\ UNCHANGED <<setBits, sampling, refused>> /\ AnswerLocal

\* SetAttitudeCallback and EnableLivoxLidarImuDataCallback repeat after a
\* timeout, the former for a known LiDAR, the latter if there was a response.
SideAnswer(h, k) ==
  /\ k \in {"attitude", "imu"}
  /\ \/ Settle(<<h, k>>)
     \/ Repeat(<<h, k>>) /\ h \in Lidars
  /\ UNCHANGED <<setBits, sampling, acked, refused>> /\ AnswerLocal

Answered(l, k) ==
  \/ k \in Items /\ (ItemAccepted(l, k) \/ ItemRefused(l, k))
  \/ k = "mode" /\ ModeAccepted(l)

HandshakeNext ==
  \/ RegisterEntry
  \/ \E l \in Lidars : InfoOfUnknown(l) \/ InfoOfRegistered(l) \/ ModeFails(l)
  \/ \E l \in Lidars, k \in Kinds : Answered(l, k)
  \/ \E l \in Lidars, i \in Items : ItemTimesOut(l, i)
  \/ \E h \in Handles, k \in Kinds : SideAnswer(h, k)

\* The entries are registered before anything else.  A request that is still
\* pending does not time out for ever.
HandshakeSpec ==
  /\ HandshakeInit /\ [][HandshakeNext]_handshakeVars
  /\ WF_handshakeVars(RegisterEntry)
  /\ \A l \in Lidars, k \in Kinds : WF_handshakeVars(Answered(l, k))

-----------------------------------------------------------------------------
IsSampling(l) == Registered(l) /\ sampling[mapIndex[l]]

\* No two LiDARs share a slot, and a slot is in use exactly when one of them
\* has it, in whatever order the listed ones are registered and the others
\* are announced (GetFreeIndex, whose search and insertion are two steps).
SlotsNotShared ==
  /\ indexCache = {mapIndex[l] : l \in DOMAIN mapIndex}
  /\ Cardinality(indexCache) = Cardinality(DOMAIN mapIndex)

\* A device starts sampling only when its LiDAR has accepted every setting
\* it is configured with, through timeouts, refusals and repeated
\* announcements (set_bits in the four Set...Callbacks).
SamplingIsEarned ==
  [][\A l \in Lidars : ~IsSampling(l) /\ IsSampling(l)' =>
       \A i \in Requested(mapIndex[l]) : <<l, i>> \in acked']_handshakeVars

\* Once asked for a setting, a LiDAR ends up sampling unless it refuses one:
\* no order of answers, timeouts and repeated announcements leaves a bit
\* behind (the retries of the Set...Callbacks).  One that is announced and
\* has a slot is brought to its normal work mode (WorkModeChangedCallback).
AskedGetsSampling ==
  \A l \in Lidars :
    /\ (\E i \in Items : pending[l, i] > 0)
         ~> (IsSampling(l) \/ \E i \in Items : <<l, i>> \in refused)
    /\ pending[l, "mode"] > 0 /\ Registered(l) ~> <<l, "mode">> \in acked

\* "Range from 50 cm to 200 cm": the value asked for is the one written.
ValueAsWritten ==
  \A r \in asked :
    \E k \in DOMAIN Entries :
      /\ Entries[k].handle = r.lidar
      /\ r.item \in DOMAIN Entries[k].items
      /\ Entries[k].items[r.item] = r.value
=============================================================================
