---------------------------- MODULE ReadThrough -----------------------------
(***************************************************************************)
(* The Redis cache in front of MySQL as the game store, the comments, the  *)
(* topics, the follows and the user service use it, and the calls that go  *)
(* through it.  A read asks Redis, loads from MySQL on a miss or an error, *)
(* and fills the entry; a write commits in MySQL first and then deletes    *)
(* the entries it knows to depend on it, one command each.  Every Redis    *)
(* error is dropped, so a fill or a deletion may not happen.               *)
(*                                                                         *)
(* A module that extends this one says what each entry stands for, and     *)
(* which entries its writes delete.  The history variable stale names the  *)
(* entries for which the protocol makes no promise: filled by a reader     *)
(* that loaded before a write, or left behind by a failure.                *)
(***************************************************************************)
EXTENDS Integers, Sequences, FiniteSetsExt, Functions

CONSTANTS
  Procs,        \* calls at work
  Users, Everyone,
  Keys,         \* entries: <<what, whose>>
  None, Gone,   \* a row before its insertion and after its deletion: ids are not used again
  Offers,       \* bound: the operations a behaviour mixes
  Calls,        \* bound: calls
  DbFaults,     \* a statement may fail, before or after it took effect
  RedisFaults   \* a command may fail

ASSUME ReadThroughAssumption ==
  /\ Procs \subseteq Nat /\ Calls \in Nat
  /\ DbFaults \in BOOLEAN /\ RedisFaults \in BOOLEAN
  /\ None # Gone

VARIABLES
  cache,        \* Redis: value of each entry, None when it is absent
  proc,         \* the call each process executes
  stale,        \* history: entries that may differ from MySQL
  offer, calls

shared == <<cache, stale>>
served == <<shared, proc, offer, calls>>

(* val is the row in hand, arg what the request asks for, held a row this  *)
(* call has locked, todo the entries still to delete.                      *)
Idle == [op |-> "none", user |-> None, step |-> "idle", key |-> None, val |-> None,
         arg |-> None, held |-> None, todo |-> <<>>]

Call(op, user, key, arg) ==
  [Idle EXCEPT !.op = op, !.user = user, !.key = key, !.arg = arg]

IsIdle(p) == proc[p] = Idle
At(p, op, step) == proc[p].op = op /\ proc[p].step = step
Become(p, call) == proc' = [proc EXCEPT ![p] = call]
Step(p, s) == proc' = [proc EXCEPT ![p].step = s]
End(p) == Become(p, Idle)

(* A request of the operation op arrives and a process takes it; they are  *)
(* all alike, so the first that is idle stands for any.                    *)
Request(p, op) ==
  /\ op \in offer /\ calls < Calls /\ IsIdle(p)
  /\ \A q \in Procs : q < p => ~IsIdle(q)
  /\ calls' = calls + 1 /\ UNCHANGED offer
Going == UNCHANGED <<offer, calls>>

Fresh(row) == row = None
Live(row) == row \notin {None, Gone}
Present(row) == IF Live(row) THEN row ELSE None

Missed(k) == cache[k] = None \/ RedisFaults

(* A read that hits changes nothing; otherwise it goes on to MySQL.        *)
Read(p, user, k) ==
  /\ Missed(k)
  /\ Become(p, [Call("read", user, k, None) EXCEPT !.step = "load"])
  /\ UNCHANGED shared

(* A write that begins with the row as the cache shows it.                 *)
ReadThen(p, call) ==
  /\ \/ cache[call.key] # None /\ Become(p, [call EXCEPT !.step = "use", !.val = cache[call.key]])
     \/ Missed(call.key) /\ Become(p, [call EXCEPT !.step = "load"])
  /\ UNCHANGED shared

(* A row that is not there is not cached: the call answers not found.      *)
Load(p, row) ==
  /\ proc[p].step = "load"
  /\ \/ row # None /\ Become(p, [proc[p] EXCEPT !.step = "fill", !.val = row])
     \/ (row = None \/ DbFaults) /\ End(p)
  /\ Going /\ UNCHANGED shared

(* The row is written back as it was loaded, whatever happened since.      *)
Fill(p, now) ==
  /\ proc[p].step = "fill"
  /\ LET k == proc[p].key IN
       \/ /\ cache' = [cache EXCEPT ![k] = proc[p].val]
          /\ stale' = IF proc[p].val = now THEN stale \ {k} ELSE stale \cup {k}
       \/ RedisFaults /\ UNCHANGED shared
  /\ IF proc[p].op = "read" THEN End(p) ELSE Step(p, "use")
  /\ Going

(* A commit that was answered is followed by the deletions of the entries  *)
(* in todo; missed names entries that show the row and are not among them. *)
(* Without the answer the caller takes the write for failed and deletes    *)
(* nothing.                                                                *)
Cached(S) == {k \in S : cache[k] # None}
Abandon(S) == stale' = stale \cup Cached(S) /\ UNCHANGED cache
Answered(p, todo, missed) ==
  /\ IF todo = <<>> THEN End(p)
     ELSE Become(p, [Idle EXCEPT !.op = "write", !.step = "del", !.todo = todo])
  /\ Abandon(missed)
Unanswered(p, todo, missed) == End(p) /\ Abandon(missed \cup Range(todo))
Committed(p, todo, missed) ==
  Answered(p, todo, missed) \/ (DbFaults /\ Unanswered(p, todo, missed))

(* Between two commits of one call the deletions are still to come.        *)
ThenStep(p, call, s, todo) == Become(p, [call EXCEPT !.step = s, !.todo = todo])
Pending(k) == \E p \in Procs : k \in Range(proc[p].todo)

Del(p) ==
  /\ proc[p].step = "del"
  /\ LET k == Head(proc[p].todo) IN
       \/ cache' = [cache EXCEPT ![k] = None] /\ stale' = stale \ {k}
       \/ RedisFaults /\ Abandon({k})
  /\ IF Len(proc[p].todo) = 1 THEN End(p)
     ELSE proc' = [proc EXCEPT ![p].todo = Tail(@)]
  /\ Going

(* Entries live for minutes; nothing refreshes them.                       *)
Expire(k) ==
  /\ cache[k] # None
  /\ cache' = [cache EXCEPT ![k] = None] /\ stale' = stale \ {k}
  /\ Going /\ UNCHANGED proc

(* A restart of the server ends every call where it is.                    *)
Crash == proc' = [p \in Procs |-> Idle] /\ Abandon({k \in Keys : Pending(k)}) /\ Going
=============================================================================
