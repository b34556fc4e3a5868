----------------------------- MODULE DriverWire -----------------------------
(***************************************************************************)
(* The two codecs between the agent and the kernel driver.                 *)
(*                                                                         *)
(* Upwards, a drain returns records back to back and the agent walks them  *)
(* (driver_wire.rs, the loop of driver_event_source.rs): three records, of *)
(* which one field of the middle one may be damaged, or whose end is cut   *)
(* off.  The buffer is a sparse function from addresses to the fields      *)
(* written there; what is not a field reads as 0.  A string is the extent  *)
(* it is read from.                                                        *)
(*                                                                         *)
(* Downwards, the agent encodes its policies (ports/driven/                *)
(* driver_control.rs), the driver parses them (secoutfall.cpp,             *)
(* Protection.cpp, Injection.cpp) and answers the query of its counters.   *)
(* A name is a sequence of UTF-16 units and a unit 0 ends it.              *)
(***************************************************************************)
EXTENDS Integers, Sequences, SequencesExt, TLC

CONSTANTS
  Neighbour,  \* kinds of the first and of the last record
  Middle,     \* kinds of the record between them
  TextBytes,  \* bytes of each string of a record
  Odd,        \* values a damaged field may take beside those near the truth
  Path,       \* paths in policies: the sensor's, the drops directory; <<>> for none
  Name,       \* names in the lists of policies, the empty one included
  MaxList,    \* names in a list
  \* the driver's limits
  MaxNames,         \* MaxExtensions, ProtectedNames::MaxNames
  MaxFilePathBytes,
  MaxDirBytes,
  MaxBlobBytes      \* of FileWatch and of ProtectedNames

HEADER_SIZE == 48
MAX_RECORD_BYTES == 64 * 1024
WIRE_MAGIC == 21318
WIRE_VERSION == 2

ASSUME WireAssumption ==
  /\ Neighbour \cup Middle \subseteq 1 .. 16
  /\ TextBytes \in Nat /\ TextBytes % 2 = 0
  /\ Odd \subseteq Nat /\ MaxList \in Nat /\ MaxNames \in Nat
  /\ {MaxFilePathBytes, MaxDirBytes, MaxBlobBytes} \subseteq Nat
  /\ \A n \in Path \cup Name : n \in Seq(Nat \ {0})

VARIABLES
  phase,    \* "walk", "done"; or "injection", "drops", "protection", "watch", "stats", "applied"
  kinds,    \* the kinds of the three records of the batch
  cell,     \* its fields by address
  len,      \* its length
  damaged,  \* the damaged field of the middle record, Cut or Whole
  pos, decoded,
  wanted,   \* the policies of the configuration
  held,     \* the policies in force in the driver
  refused,  \* policies the driver found malformed
  stats     \* the snapshot of the counters, <<>> before the query

walk == <<kinds, cell, len, damaged, pos, decoded>>
control == <<wanted, held, refused, stats>>
vars == <<phase, walk, control>>

Whole == -1
Cut == -2
-----------------------------------------------------------------------------
(* Records as the driver writes them                                       *)

\* RecordKind: 1 ProcessCreated, 2 ProcessExited, 3 and 4 Thread, 5 ImageLoaded,
\* 6 RegistryKeyCreated, 7 RegistryKeyDeleted, 8 RegistrySetValue,
\* 9 FileCreated, 10 FileWritten, 11 FileCleanedUp, 12 FileDeleted,
\* 13 FileRenamed, 14 DropCaptured, 15 BehaviorCall, 16 ProtectionEvent.
Kind == 1 .. 16
RegistrySetValue == 8

\* min_size: the fixed extent of a kind.
MinSize(kind) ==
  CASE kind = 2 -> 48
    [] kind \in {1, 14} -> 60
    [] kind = 13 -> 56
    [] kind \in {3, 4, 6, 7, 9, 11, 12} -> 52
    [] kind \in {5, 8, 10} -> 64
    [] kind = 15 -> 88
    [] kind = 16 -> 80

\* payload_of: where the offset of each string stands; its length is two
\* bytes further.
StringFields(kind) ==
  CASE kind = 1 -> <<52, 56>>
    [] kind \in {5, 10} -> <<60>>
    [] kind \in {6, 7, 9, 11, 12} -> <<48>>
    [] kind \in {8, 13, 14} -> <<48, 52>>
    [] OTHER -> <<>>

DataBytes == 60  \* where RegistrySetValue has the length of its data

WrittenSize(kind) ==
  MinSize(kind) + TextBytes * (Len(StringFields(kind)) + IF kind = RegistrySetValue THEN 1 ELSE 0)

\* AllocRecord and the callback that fills the record in.
Written(kind) ==
  LET fields == StringFields(kind)
      offset == Range(fields)
      data == IF kind = RegistrySetValue THEN {DataBytes} ELSE {}
  IN [a \in {0, 2, 4, 6, 40} \cup offset \cup {f + 2 : f \in offset} \cup data |->
       CASE a = 0 -> WIRE_MAGIC
         [] a = 2 -> WIRE_VERSION
         [] a = 4 -> kind
         [] a = 6 -> HEADER_SIZE
         [] a = 40 -> WrittenSize(kind)
         [] a \in offset -> MinSize(kind) + TextBytes * (IF a = fields[1] THEN 0 ELSE 1)
         [] OTHER -> TextBytes]

Start(ks, i) == FoldLeft(+, 0, [j \in 1 .. i - 1 |-> WrittenSize(ks[j])])

At(base, fields) == [a \in {base + f : f \in DOMAIN fields} |-> fields[a - base]]

BackToBack(ks) ==
  At(0, Written(ks[1])) @@ At(Start(ks, 2), Written(ks[2])) @@ At(Start(ks, 3), Written(ks[3]))

\* A header that ends where the middle record does, inside of its text.
Forged(ks, size) ==
  At(Start(ks, 3) - HEADER_SIZE, [Written(2) EXCEPT ![40] = size])

\* Values of a damaged field: those near the truth, sizes that lead to the
\* forged header, to the end of the batch and beyond it, and Odd.
Damage(ks, f) ==
  LET v == Written(ks[2])[f] rest == Start(ks, 4) - Start(ks, 2)
  IN (Odd \cup {v - 1, v + 1, v + 2, WrittenSize(ks[2]) - HEADER_SIZE, rest, rest + 1}) \ {v}

BatchInit ==
  /\ phase = "walk" /\ pos = 0 /\ decoded = <<>>
  /\ kinds \in Neighbour \X Middle \X Neighbour
  /\ \/ damaged = Whole /\ cell = BackToBack(kinds) /\ len = Start(kinds, 4)
     \/ /\ damaged = Cut /\ cell = BackToBack(kinds)
        /\ len \in {Start(kinds, 4) - 1, Start(kinds, 3) + HEADER_SIZE - 1, Start(kinds, 3) + 1}
     \/ \E f \in DOMAIN Written(kinds[2]), size \in {0, HEADER_SIZE, WrittenSize(kinds[3]) + HEADER_SIZE} :
          \E v \in Damage(kinds, f) :
            /\ damaged = f /\ len = Start(kinds, 4)
            /\ cell = (Start(kinds, 2) + f :> v) @@ BackToBack(kinds)
                        @@ (IF TextBytes < HEADER_SIZE THEN <<>> ELSE Forged(kinds, size))
-----------------------------------------------------------------------------
(* driver_wire.rs                                                          *)

Field(p, a) == IF p + a \in DOMAIN cell THEN cell[p + a] ELSE 0

Rest(p) == len - p

\* Faulty variant: only the upper bound is checked.
RecordSizeOkUnbounded(p) == Rest(p) >= 44 /\ Field(p, 40) <= Rest(p)

\* record_size: the declared size, if the record can have it.
RecordSizeOk(p) ==
  Rest(p) >= 44 /\ Field(p, 40) >= HEADER_SIZE /\ Field(p, 40) <= Rest(p)

HeaderOk(p) ==
  /\ Rest(p) >= HEADER_SIZE
  /\ Field(p, 0) = WIRE_MAGIC /\ Field(p, 2) = WIRE_VERSION /\ Field(p, 6) = HEADER_SIZE
  /\ Field(p, 40) >= HEADER_SIZE /\ Field(p, 40) <= Rest(p)
  /\ Field(p, 40) <= MAX_RECORD_BYTES
  /\ Field(p, 4) \in Kind

\* The extent of each string, relative to the record.
Strings(p) ==
  [i \in DOMAIN StringFields(Field(p, 4)) |->
     LET f == StringFields(Field(p, 4))[i] IN [from |-> Field(p, f), bytes |-> Field(p, f + 2)]]

\* str_field: whole units inside of the record; an empty string is nowhere.
StrField(p, s) == s.bytes % 2 = 0 /\ (s.bytes = 0 \/ s.from + s.bytes <= Field(p, 40))

\* parse_registry_set_value: the data follows the name of the value, and even
\* an empty slice has to start inside of the record.
Data(p) ==
  LET name == Strings(p)[2] IN [from |-> name.from + name.bytes, bytes |-> Field(p, DataBytes)]

DataOk(p) ==
  Field(p, 4) = RegistrySetValue => Data(p).from + Data(p).bytes <= Field(p, 40)

\* payload_of.
PayloadOk(p) ==
  /\ Field(p, 40) >= MinSize(Field(p, 4))
  /\ \A i \in DOMAIN Strings(p) : StrField(p, Strings(p)[i])
  /\ DataOk(p)

Decodes(p) == HeaderOk(p) /\ PayloadOk(p)

Record(p) ==
  [start |-> p, kind |-> Field(p, 4), size |-> Field(p, 40),
   reads |-> Strings(p) \o IF Field(p, 4) = RegistrySetValue THEN <<Data(p)>> ELSE <<>>]

\* Faulty variant: the first record that is rejected costs the batch.
DecodeAll ==
  /\ phase = "walk" /\ pos < len
  /\ IF Decodes(pos)
     THEN decoded' = Append(decoded, Record(pos)) /\ pos' = pos + Field(pos, 40)
     ELSE pos' = len /\ UNCHANGED decoded
  /\ UNCHANGED <<phase, kinds, cell, len, damaged, control>>

\* One turn of the walk: a record that is rejected costs itself, one without a
\* usable size the rest of the batch.
WalkRecord ==
  /\ phase = "walk" /\ pos < len
  /\ \/ /\ RecordSizeOk(pos) /\ Decodes(pos)
        /\ decoded' = Append(decoded, Record(pos)) /\ pos' = pos + Field(pos, 40)
     \/ /\ RecordSizeOk(pos) /\ ~ Decodes(pos)
        /\ pos' = pos + Field(pos, 40) /\ UNCHANGED decoded
     \/ /\ ~ RecordSizeOk(pos)
        /\ pos' = len /\ UNCHANGED decoded
  /\ UNCHANGED <<phase, kinds, cell, len, damaged, control>>

WalkDone ==
  /\ phase = "walk" /\ pos >= len
  /\ phase' = "done" /\ UNCHANGED <<walk, control>>
-----------------------------------------------------------------------------
(* Policies: the agent encodes, the driver parses                          *)

wide_nul(name) == Append(name, 0)

\* Faulty variant: the names are put together without their terminators.
wide_list_joined(names) == IF names = <<>> THEN <<>> ELSE Append(FlattenSeq(names), 0)

\* Every name with its NUL, and one more for the list unless it is empty.
wide_list(names) ==
  IF names = <<>> THEN <<>>
  ELSE Append(FlattenSeq([i \in DOMAIN names |-> wide_nul(names[i])]), 0)

Bytes(units) == 2 * Len(units)

encode_injection_policy(path) ==
  [enabled |-> TRUE, path |-> Bytes(wide_nul(path)), exclusions |-> 0, units |-> wide_nul(path)]

encode_drop_policy(dir, extensions) ==
  [enabled |-> TRUE, count |-> Len(extensions), extensions |-> Bytes(wide_list(extensions)),
   dir |-> Bytes(wide_nul(dir)), units |-> wide_list(extensions) \o wide_nul(dir)]

encode_protection_policy(names) ==
  [enabled |-> names # <<>>, bytes |-> Bytes(wide_list(names)), units |-> wide_list(names)]

encode_file_watch_policy(enabled, extensions) ==
  [enabled |-> enabled, count |-> Len(extensions), bytes |-> Bytes(wide_list(extensions)),
   units |-> wide_list(extensions)]

\* The driver's loop over a list: after n turns the names, where the next one
\* starts, and whether each was terminated and not empty.
Parsed(units, n) ==
  LET end(c) == CHOOSE e \in c .. Len(units) + 1 :
                  /\ e = Len(units) + 1 \/ units[e] = 0
                  /\ \A d \in c .. e - 1 : units[d] # 0
      turn[k \in 0 .. n] ==
        IF k = 0 THEN [ok |-> TRUE, names |-> <<>>, next |-> 1]
        ELSE LET was == turn[k - 1] IN
             IF ~ was.ok \/ end(was.next) \in {was.next, Len(units) + 1}
             THEN [was EXCEPT !.ok = FALSE]
             ELSE [ok |-> TRUE, next |-> end(was.next) + 1,
                   names |-> Append(was.names, SubSeq(units, was.next, end(was.next) - 1))]
  IN turn[n]

\* SET_INJECTION_POLICY
TakesInjection(b) ==
  /\ b.path >= 4 /\ b.path % 2 = 0 /\ b.path <= MaxFilePathBytes
  /\ b.exclusions % 2 = 0 /\ Bytes(b.units) = b.path + b.exclusions

\* SET_DROP_POLICY
TakesDrops(b) ==
  /\ b.extensions <= MaxBlobBytes /\ b.count <= MaxNames
  /\ b.dir > 0 /\ b.dir <= MaxDirBytes
  /\ Bytes(b.units) = b.extensions + b.dir
  /\ b.units[Len(b.units)] = 0
  /\ Parsed(SubSeq(b.units, 1, b.extensions \div 2), b.count).ok

\* SET_PROTECTED: as many names as there are before an empty one.
Protected(b) == Parsed(b.units, Len(b.units)).names

TakesProtection(b) ==
  /\ b.bytes <= MaxBlobBytes /\ Bytes(b.units) = b.bytes
  /\ b.enabled => Len(Protected(b)) \in 1 .. MaxNames

\* SET_FILE_WATCH
TakesWatch(b) ==
  /\ b.bytes <= MaxBlobBytes /\ b.count <= MaxNames /\ Bytes(b.units) = b.bytes
  /\ Parsed(b.units, b.count).ok

\* A policy is in force or there is none.
Off == {}
Lists == UNION {[1 .. n -> Name] : n \in 0 .. MaxList}

PolicyInit ==
  /\ phase = "injection"
  /\ wanted \in [sensor : Path, dir : Path, extensions : Lists, protected : Lists]

\* send: the driver takes a policy whole, finds it malformed, or is short of
\* memory and keeps the one it has.  A failure ends apply_policies.
Send(policy, valid, taken, next) ==
  /\ phase = policy
  /\ \/ valid /\ held' = [held EXCEPT ![policy] = taken] /\ phase' = next /\ UNCHANGED refused
     \/ valid /\ phase' = (IF policy = "watch" THEN next ELSE "watch") /\ UNCHANGED <<held, refused>>
     \/ /\ ~ valid /\ refused' = refused \cup {policy} /\ UNCHANGED held
        /\ phase' = (IF policy = "watch" THEN next ELSE "watch")
  /\ UNCHANGED <<walk, wanted, stats>>

\* apply_policies leaves out the policies that are not configured.
NotConfigured(policy, next) ==
  /\ phase = policy /\ phase' = next /\ UNCHANGED <<walk, control>>

PushInjection ==
  IF wanted.sensor = <<>> THEN NotConfigured("injection", "drops")
  ELSE LET b == encode_injection_policy(wanted.sensor) IN
       Send("injection", TakesInjection(b), SubSeq(b.units, 1, b.path \div 2 - 1), "drops")

PushDrops ==
  IF wanted.dir = <<>> THEN NotConfigured("drops", "protection")
  ELSE LET b == encode_drop_policy(wanted.dir, wanted.extensions) IN
       Send("drops", TakesDrops(b),
            {[dir |-> SubSeq(b.units, b.extensions \div 2 + 1, Len(b.units) - 1),
              names |-> Parsed(SubSeq(b.units, 1, b.extensions \div 2), b.count).names]},
            "protection")

PushProtection ==
  LET b == encode_protection_policy(wanted.protected) IN
  Send("protection", TakesProtection(b), IF b.enabled THEN Protected(b) ELSE <<>>, "watch")

PushFileWatch ==
  LET b == encode_file_watch_policy(TRUE, <<>>) IN
  Send("watch", TakesWatch(b), {Parsed(b.units, b.count).names}, "stats")
-----------------------------------------------------------------------------
(* The counters of the driver                                              *)

\* DriverStats in C: six ULONGs after the four bytes of magic and version, then
\* ULONG64s from the next multiple of 8.
ULongs == <<"queue_depth", "queue_capacity", "file_queue_depth", "file_queue_capacity",
            "drops_queue_depth", "drops_queue_capacity">>
ULong64s == <<"sequence", "queue_overwritten", "alloc_failures", "oversized_skipped",
              "identity_misses", "files_overwritten", "file_name_queries_failed",
              "noise_writes_skipped", "drops_stopped", "drops_missed_busy", "drops_link_failed",
              "drops_copy_failed", "injections_queued", "injections_failed",
              "sensors_registered", "sensors_rejected", "protections_stripped",
              "protection_trusted", "sensor_events_drained", "sensor_events_dropped",
              "sensor_rings_active", "sensor_rings_skipped">>

\* GET_STATS never writes these two.
Unwritten == {"protections_stripped", "protection_trusted"}

Align8(a) == ((a + 7) \div 8) * 8

\* The counter at each address of the reply.
Reply ==
  LET first == Align8(4 + 4 * Len(ULongs))
      content(f) == IF f \in Unwritten THEN "stale" ELSE f
  IN [a \in {4 * i : i \in DOMAIN ULongs} |-> content(ULongs[a \div 4])]
     @@ [a \in {first + 8 * (i - 1) : i \in DOMAIN ULong64s} |-> content(ULong64s[(a - first) \div 8 + 1])]

\* decode_driver_stats: the OFF_ constants.
OFF ==
  [queue_depth |-> 4, queue_capacity |-> 8, file_queue_depth |-> 12, file_queue_capacity |-> 16,
   drops_queue_depth |-> 20, drops_queue_capacity |-> 24, sequence |-> 32,
   queue_overwritten |-> 40, alloc_failures |-> 48, oversized_skipped |-> 56,
   identity_misses |-> 64, files_overwritten |-> 72, file_name_queries_failed |-> 80,
   noise_writes_skipped |-> 88, drops_stopped |-> 96, drops_missed_busy |-> 104,
   drops_link_failed |-> 112, drops_copy_failed |-> 120, injections_queued |-> 128,
   injections_failed |-> 136, sensors_registered |-> 144, sensors_rejected |-> 152,
   protections_stripped |-> 160, protection_trusted |-> 168, sensor_events_drained |-> 176,
   sensor_events_dropped |-> 184, sensor_rings_active |-> 192, sensor_rings_skipped |-> 200]

\* query_stats: a failed query is logged.
QueryStats ==
  /\ phase = "stats"
  /\ stats' = [f \in DOMAIN OFF |-> Reply[OFF[f]]] \/ UNCHANGED stats
  /\ phase' = "applied" /\ UNCHANGED <<walk, wanted, held, refused>>
-----------------------------------------------------------------------------
NothingWanted == [sensor |-> <<>>, dir |-> <<>>, extensions |-> <<>>, protected |-> <<>>]

\* The driver as it boots: nothing armed, the watch off.
Booted == [injection |-> <<>>, drops |-> Off, protection |-> <<>>, watch |-> Off]

Init ==
  /\ held = Booted /\ refused = {} /\ stats = <<>>
  /\ \/ BatchInit /\ wanted = NothingWanted
     \/ /\ PolicyInit
        /\ kinds = <<>> /\ cell = <<>> /\ len = 0 /\ damaged = Whole /\ pos = 0 /\ decoded = <<>>

Next ==
  \/ WalkRecord \/ WalkDone
  \/ PushInjection \/ PushDrops \/ PushProtection \/ PushFileWatch \/ QueryStats

\* The loop of the drain goes on while there is something left of the batch.
WalkFairness == WF_vars(WalkRecord) /\ WF_vars(WalkDone)

Spec == Init /\ [][Next]_vars /\ WalkFairness
-----------------------------------------------------------------------------
(* Properties                                                              *)

\* Whatever a drain returns, its walk comes to an end: no declared size keeps
\* the walk at its place (record_size).
WalkEnds == phase = "walk" ~> phase = "done"

\* The record i as it was written.
Original(i) ==
  LET w == Written(kinds[i]) fields == StringFields(kinds[i]) strings ==
        [j \in DOMAIN fields |-> [from |-> w[fields[j]], bytes |-> w[fields[j] + 2]]]
  IN [start |-> Start(kinds, i), kind |-> kinds[i], size |-> WrittenSize(kinds[i]),
      reads |-> strings \o
        IF kinds[i] = RegistrySetValue
        THEN <<[from |-> strings[2].from + TextBytes, bytes |-> TextBytes]>> ELSE <<>>]

\* A damaged record costs itself: what comes before it is handed on as it was
\* written, and what comes after it too unless its size is damaged; and no
\* record is handed on with a string that is not its own (the walk of
\* driver_event_source.rs, str_field).
DamageIsLocal ==
  /\ phase = "done" =>
       /\ \A i \in 1 .. 3 :
            (\/ damaged = Whole \/ i = 1
             \/ damaged = Cut /\ i = 2
             \/ damaged \notin {Cut, 40} /\ i = 3) => Original(i) \in Range(decoded)
       /\ damaged = Cut => Len(decoded) = 2
       /\ damaged = Whole => Len(decoded) = 3
  /\ \A i \in DOMAIN decoded : \A j \in DOMAIN decoded[i].reads :
       LET r == decoded[i] s == decoded[i].reads[j] IN
       s.bytes > 0 => s.from + s.bytes <= r.size /\ r.start + r.size <= len

\* A path with its NUL, a list with the NULs of its names and its own.
PathFits(path, limit) == 2 * (Len(path) + 1) <= limit
ListFits(names) == names = <<>> \/ 2 * (Len(FlattenSeq(names)) + Len(names) + 1) <= MaxBlobBytes
Wellformed(names) == Len(names) <= MaxNames /\ <<>> \notin Range(names) /\ ListFits(names)

\* What the driver has in force is what it booted with or exactly what the
\* configuration says, never a part of it: it takes no path or list beyond a
\* limit of its own, in names or in bytes, cut to fit, and it rejects none
\* within them that has no empty name.  An empty name ends the list of
\* protected names.  Every counter is read from where the driver writes it, but
\* for the two that it never writes (driver_control.rs, secoutfall.cpp).
ControlAgrees ==
  LET injectable == PathFits(wanted.sensor, MaxFilePathBytes)
      droppable == PathFits(wanted.dir, MaxDirBytes) /\ Wellformed(wanted.extensions)
  IN
  /\ held.injection = <<>> \/ (injectable /\ held.injection = wanted.sensor)
  /\ held.drops = Off \/ (droppable /\ held.drops = {[dir |-> wanted.dir, names |-> wanted.extensions]})
  /\ \/ held.protection = <<>>
     \/ held.protection = wanted.protected /\ Wellformed(wanted.protected)
     \/ /\ <<>> \in Range(wanted.protected) /\ ListFits(wanted.protected)
        /\ IsPrefix(held.protection, wanted.protected) /\ Len(held.protection) <= MaxNames
  /\ held.watch \in {Off, {<<>>}}
  /\ refused \subseteq {"injection", "drops", "protection"}
  /\ "injection" \in refused => ~ injectable
  /\ "drops" \in refused => ~ droppable
  /\ "protection" \in refused => ~ Wellformed(wanted.protected)
  /\ \A f \in DOMAIN stats \ Unwritten : stats[f] = f
=============================================================================
