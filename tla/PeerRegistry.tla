---------------------------- MODULE PeerRegistry ----------------------------
(***************************************************************************)
(* The peer registry (src/peer-registry.ts) as pure operators on its two   *)
(* maps.  A record is stored under its stream id; before a peer has said   *)
(* which stream it publishes, its record is a placeholder stored under the *)
(* UUID of its transport connection.  A registry value r has four fields:  *)
(*                                                                         *)
(*   r.uuid       peers.get(id).uuid, or None when no record is stored     *)
(*                under id                                                 *)
(*   r.stream     uuidToStream.get(uuid), or None                          *)
(*   r.connected  the ids whose record has connected = true                *)
(*   r.announced  the ids whose record has announced = true                *)
(*                                                                         *)
(* Identity, skills, status and the time stamps of a record are left out:  *)
(* no operation here branches on them (pruneStale, the only one that reads *)
(* lastSeenAt, has no caller in the repository).                           *)
(***************************************************************************)
EXTENDS FiniteSets

CONSTANTS Streams,  \* the stream ids peers publish under
          Uuids,    \* the UUIDs the SDK gives to transport connections
          None      \* the absent id

Ids == Streams \cup Uuids

\* The SDK generates UUIDs: none of them is the name of a stream.
ASSUME IdAssumption == None \notin Ids /\ Streams \cap Uuids = {}

Registry == [uuid : [Ids -> Uuids \cup {None}], stream : [Uuids -> Ids \cup {None}],
             connected : SUBSET Ids, announced : SUBSET Ids]

EmptyRegistry == [uuid |-> [id \in Ids |-> None], stream |-> [u \in Uuids |-> None],
                  connected |-> {}, announced |-> {}]

HasRecord(r, id) == r.uuid[id] # None

\* The id of the record uuidToStream leads to, if any.
RecordOfUuid(r, u) ==
  IF r.stream[u] # None /\ HasRecord(r, r.stream[u]) THEN r.stream[u] ELSE None

\* resolve(): by record id first, then through the UUID.
Resolve(r, id) ==
  IF HasRecord(r, id) THEN id
  ELSE IF id \in Uuids THEN RecordOfUuid(r, id) ELSE None

IsConnected(r, id) == Resolve(r, id) \in r.connected

\* A fault for the mutation tests: the old UUID keeps leading to the record.
ReattachKeepingAlias(r, s, u) ==
  LET gone == {RecordOfUuid(r, u)} \ {s, None}
  IN [uuid      |-> [id \in Ids |-> IF id = s THEN u
                                    ELSE IF id \in gone THEN None ELSE r.uuid[id]],
      stream    |-> [r.stream EXCEPT ![u] = s],
      connected |-> (r.connected \ gone) \cup {s},
      announced |-> r.announced \ (gone \cup {s})]

(***************************************************************************)
(* addPeer, a record being stored under s: another record of u goes away,  *)
(* the record of s gives up its old UUID, and an announce of an earlier    *)
(* connection no longer counts.                                            *)
(***************************************************************************)
Reattach(r, s, u) ==
  LET old  == RecordOfUuid(r, u)
      gone == {old} \ {s, None}
      same == s \in r.connected /\ r.uuid[s] = u
  IN [uuid      |-> [id \in Ids |-> IF id = s THEN u
                                    ELSE IF id \in gone THEN None ELSE r.uuid[id]],
      stream    |-> [v \in Uuids |-> IF v = u THEN s
                                     ELSE IF v = r.uuid[s] THEN None ELSE r.stream[v]],
      connected |-> (r.connected \ gone) \cup {s},
      announced |-> IF same THEN r.announced \ gone ELSE r.announced \ (gone \cup {s})]

\* The record stored under id moves to s, where none is stored.
MoveRecord(r, id, s) ==
  LET u == r.uuid[id]
      Renamed(S) == IF id \in S THEN (S \ {id}) \cup {s} ELSE S
  IN [uuid      |-> [r.uuid EXCEPT ![id] = None, ![s] = u],
      stream    |-> [r.stream EXCEPT ![u] = s],
      connected |-> Renamed(r.connected),
      announced |-> Renamed(r.announced)]

\* rekeyPeer refuses an unknown peer and an id already taken.
RekeyPeer(r, id, s) ==
  LET p == Resolve(r, id)
  IN IF p = None \/ HasRecord(r, s) THEN r ELSE MoveRecord(r, p, s)

(***************************************************************************)
(* addPeer, no record under s but one under another id for u: a            *)
(* placeholder is promoted to s, a record that has its stream id keeps it. *)
(***************************************************************************)
Reactivate(r, s, u) ==
  LET old == RecordOfUuid(r, u)
      r1  == IF old = u /\ s # u THEN RekeyPeer(r, u, s) ELSE r
      now == IF old = u /\ s # u THEN s ELSE old
  IN [uuid      |-> r1.uuid,
      stream    |-> [r1.stream EXCEPT ![u] = now],
      connected |-> r1.connected \cup {now},
      announced |-> IF now \in r1.connected THEN r1.announced ELSE r1.announced \ {now}]

NewRecord(r, s, u) ==
  [uuid      |-> [r.uuid EXCEPT ![s] = u],
   stream    |-> [r.stream EXCEPT ![u] = s],
   connected |-> r.connected \cup {s},
   announced |-> r.announced \ {s}]

AddPeer(r, s, u) ==
  IF HasRecord(r, s) THEN Reattach(r, s, u)
  ELSE IF RecordOfUuid(r, u) # None THEN Reactivate(r, s, u)
  ELSE NewRecord(r, s, u)

\* The record stays, with its UUID, for the next connection to find.
MarkDisconnected(r, id) == [r EXCEPT !.connected = @ \ {Resolve(r, id)}]

UpdateFromAnnounce(r, id) ==
  [r EXCEPT !.announced = IF Resolve(r, id) = None THEN @ ELSE @ \cup {Resolve(r, id)}]

(***************************************************************************)
(* The two maps describe one relation between records and connections:     *)
(* each record is the one its UUID leads to, each mapped UUID leads to a   *)
(* record that carries it, and flags belong to records.                    *)
(***************************************************************************)
Consistent(r) ==
  /\ \A id \in Ids : HasRecord(r, id) => r.stream[r.uuid[id]] = id
  /\ \A u \in Uuids : r.stream[u] # None => r.uuid[r.stream[u]] = u
  /\ \A id \in r.connected \cup r.announced : HasRecord(r, id)
=============================================================================
