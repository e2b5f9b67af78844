-------------------------------- MODULE Site --------------------------------
(***************************************************************************)
(* The game store and the community behind one server: their calls share   *)
(* its processes, the Redis cache and its restarts.                        *)
(***************************************************************************)
EXTENDS GameStore, Community

ASSUME KeysAssumption == Keys = StoreKeys \cup CommunityKeys

VARIABLE restarts

vars == <<served, store, community, restarts>>

View(k) == IF k \in StoreKeys THEN StoreView(k) ELSE CommunityView(k)

(* The parts have their types, and every call names an operation that its  *)
(* behaviour offers or that a request of it goes on to.                    *)
TypeOK ==
  /\ StoreTypeOK /\ CommunityTypeOK
  /\ offer \in Offers /\ calls \in 0..Calls /\ restarts \in 0..1
  /\ DOMAIN cache = Keys /\ stale \subseteq Keys
  /\ \A p \in Procs :
       /\ proc[p].op \in offer \cup {"none", "read", "write", "game"}
       /\ proc[p].step \in {"idle", "load", "fill", "use", "topic", "balance", "commit",
                            "count", "publish", "insert", "del"}
       /\ Range(proc[p].todo) \subseteq Keys
       /\ proc[p].step = "del" => proc[p].todo # <<>>

Init ==
  /\ offer \in Offers
  /\ StoreInit /\ CommunityInit
  /\ cache = [k \in Keys |-> None] /\ stale = {}
  /\ proc = [p \in Procs |-> Idle] /\ calls = 0 /\ restarts = 0

Data(p) == Load(p, View(proc[p].key)) \/ Fill(p, View(proc[p].key)) \/ Del(p)

Restart ==
  /\ "restart" \in offer /\ restarts = 0 /\ restarts' = 1
  /\ Crash /\ LoseCounts /\ SeedLicenses
  /\ UNCHANGED <<library, balance, ledger, orders>>

Next ==
  \/ \E p \in Procs : StoreStep(p) /\ UNCHANGED <<community, restarts>>
  \/ \E p \in Procs : CommunityStep(p) /\ UNCHANGED <<store, restarts>>
  \/ \E p \in Procs : Data(p) /\ UNCHANGED <<store, community, restarts>>
  \/ \E k \in Keys : Expire(k) /\ UNCHANGED <<store, community, restarts>>
  \/ Worker /\ UNCHANGED <<store, restarts>>
  \/ Restart

Spec == Init /\ [][Next]_vars

-----------------------------------------------------------------------------
(* An entry of Redis shows what MySQL holds, unless the call that changed  *)
(* it is still to delete it, or stale says that the protocol does not      *)
(* promise it: a reader filled it with what it had loaded before a write,  *)
(* a failure left it, or no call deletes it after that write (the topics   *)
(* when a game's is made, the comments when their topic or author's name   *)
(* goes, a deleted comment on its article, the play lists when a game      *)
(* changes).  Each write must delete, in every interleaving, each other    *)
(* entry it changes.                                                       *)
FreshAfterWrites ==
  \A k \in Keys : cache[k] # None /\ cache[k] # View(k) => k \in stale \/ Pending(k)
=============================================================================
