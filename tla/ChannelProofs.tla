--------------------------- MODULE ChannelProofs ---------------------------
(***************************************************************************)
(* Proofs about the agent gateway and the channel hub (AgentChat and       *)
(* ChannelHub): types, the pool of agent slots, answered events, deleted   *)
(* sessions and whose history a turn reads, for any number of requests,    *)
(* any requests and any placement of faults.                               *)
(***************************************************************************)
EXTENDS ChannelHub, StreamProofs

-----------------------------------------------------------------------------
(* Sequences: the messages of a session and the index of sessions.         *)

(* The bounds are numbers and None is none of them.                        *)
LEMMA Numbers == /\ Calls \in Nat /\ MaxConc \in Nat /\ MaxShort \in Nat /\ Expiries \in Nat
                 /\ None \notin Nat
BY ChatAssumption

(* The elements of what is trimmed, extended or put in front.              *)
LEMMA SuffixFacts ==
  ASSUME NEW S, NEW q \in Seq(S)
  PROVE  Suffix(q) \in Seq(S) /\ ToSet(Suffix(q)) \subseteq ToSet(q)
<1> DEFINE k == Min({Len(q), MaxShort})
           m == Len(q) - k + 1
<1>1. k \in Nat /\ k <= Len(q)
  <2>1. Len(q) \in Nat /\ MaxShort \in Nat
    BY Numbers
  <2>2. \E x \in {Len(q), MaxShort} : \A y \in {Len(q), MaxShort} : x <= y
    BY <2>1
  <2>3. k \in {Len(q), MaxShort} /\ \A y \in {Len(q), MaxShort} : k <= y
    BY <2>2 DEF Min
  <2> QED BY <2>1, <2>3
<1>2. m \in Int /\ m >= 1 /\ Len(q) \in Nat
  BY <1>1
<1> HIDE DEF k
<1>3. \A i \in m..Len(q) : q[i] \in S
  BY <1>2, ElementOfSeq
<1>4. /\ SubSeq(q, m, Len(q)) \in Seq(S)
      /\ Len(SubSeq(q, m, Len(q))) = IF m <= Len(q) THEN Len(q) - m + 1 ELSE 0
      /\ \A i \in 1..Len(q) - m + 1 : SubSeq(q, m, Len(q))[i] = q[m + i - 1]
  BY <1>2, <1>3, SubSeqProperties
<1>5. Suffix(q) = SubSeq(q, m, Len(q))
  BY DEF Suffix, k
<1>6. ASSUME NEW x \in ToSet(Suffix(q))
      PROVE  x \in ToSet(q)
  <2>1. PICK i \in 1..Len(Suffix(q)) : x = Suffix(q)[i]
    BY <1>4, <1>5, LenProperties DEF ToSet
  <2>2. /\ m <= Len(q) /\ i \in 1..Len(q) - m + 1
        /\ m + i - 1 \in 1..Len(q) /\ x = q[m + i - 1]
    BY <1>2, <1>4, <1>5, <2>1
  <2> QED BY <2>2, LenProperties DEF ToSet
<1> QED BY <1>4, <1>5, <1>6

(* A concatenation holds what its two parts hold.                          *)
LEMMA ConcatSet ==
  ASSUME NEW S, NEW q \in Seq(S), NEW r \in Seq(S)
  PROVE  q \o r \in Seq(S) /\ ToSet(q \o r) = ToSet(q) \cup ToSet(r)
<1>1. /\ q \o r \in Seq(S) /\ Len(q \o r) = Len(q) + Len(r)
      /\ \A i \in 1..Len(q) + Len(r) : (q \o r)[i] = IF i <= Len(q) THEN q[i] ELSE r[i - Len(q)]
  BY ConcatProperties
<1>2. /\ DOMAIN (q \o r) = 1..Len(q) + Len(r) /\ DOMAIN q = 1..Len(q) /\ DOMAIN r = 1..Len(r)
      /\ Len(q) \in Nat /\ Len(r) \in Nat
  BY <1>1, LenProperties
<1>3. ASSUME NEW x \in ToSet(q \o r)
      PROVE  x \in ToSet(q) \cup ToSet(r)
  <2>1. PICK i \in 1..Len(q) + Len(r) : x = (q \o r)[i]
    BY <1>2 DEF ToSet
  <2>2. CASE i <= Len(q)
    BY <1>1, <1>2, <2>1, <2>2 DEF ToSet
  <2>3. CASE ~(i <= Len(q))
    <3>1. i - Len(q) \in 1..Len(r) /\ x = r[i - Len(q)]
      BY <1>1, <1>2, <2>1, <2>3
    <3> QED BY <1>2, <3>1 DEF ToSet
  <2> QED BY <2>2, <2>3
<1>4. ASSUME NEW x \in ToSet(q)
      PROVE  x \in ToSet(q \o r)
  <2>1. PICK i \in 1..Len(q) : x = q[i]
    BY <1>2 DEF ToSet
  <2>2. i \in 1..Len(q) + Len(r) /\ (q \o r)[i] = x
    BY <1>1, <1>2, <2>1
  <2> QED BY <1>2, <2>2 DEF ToSet
<1>5. ASSUME NEW x \in ToSet(r)
      PROVE  x \in ToSet(q \o r)
  <2>1. PICK i \in 1..Len(r) : x = r[i]
    BY <1>2 DEF ToSet
  <2>2. i + Len(q) \in 1..Len(q) + Len(r) /\ (q \o r)[i + Len(q)] = r[i]
    <3>1. i + Len(q) \in 1..Len(q) + Len(r) /\ ~(i + Len(q) <= Len(q)) /\ (i + Len(q)) - Len(q) = i
      BY <1>2
    <3> QED BY <1>1, <3>1
  <2> QED BY <1>2, <2>1, <2>2 DEF ToSet
<1> QED BY <1>1, <1>3, <1>4, <1>5

(* A sequence of one element.                                              *)
LEMMA SingleSeq ==
  ASSUME NEW S, NEW s \in S
  PROVE  <<s>> \in Seq(S) /\ ToSet(<<s>>) = {s} /\ Len(<<s>>) = 1 /\ <<s>>[1] = s
BY DEF ToSet
(* ZREM takes the member out and leaves the others, once each.             *)
LEMMA RemovedFacts ==
  ASSUME NEW S, NEW q \in Seq(S), IsInjective(q), NEW s
  PROVE  /\ Removed(q, s) \in Seq(S) /\ IsInjective(Removed(q, s))
         /\ ToSet(Removed(q, s)) = ToSet(q) \ {s}
<1>1. CASE s \notin ToSet(q)
  BY <1>1 DEF Removed
<1>2. CASE s \in ToSet(q)
  <2> DEFINE n == Len(q)
             k == CHOOSE i \in DOMAIN q : q[i] = s
             a == SubSeq(q, 1, k - 1)
             b == SubSeq(q, k + 1, n)
  <2>0. n \in Nat /\ DOMAIN q = 1..n /\ \A i \in 1..n : q[i] \in S
    BY LenProperties, ElementOfSeq
  <2>1. k \in 1..n /\ q[k] = s
    <3>1. \E i \in DOMAIN q : q[i] = s
      BY <1>2 DEF ToSet
    <3> QED BY <2>0, <3>1
  <2>2. Removed(q, s) = a \o b
    BY <1>2 DEF Removed, RemoveAt
  <2> HIDE DEF k
  <2>3. /\ a \in Seq(S) /\ Len(a) = k - 1
        /\ \A i \in 1..k - 1 : a[i] = q[i]
    <3>1. \A i \in 1..k - 1 : q[i] \in S
      BY <2>0, <2>1
    <3>2. /\ a \in Seq(S) /\ Len(a) = IF 1 <= k - 1 THEN (k - 1) - 1 + 1 ELSE 0
          /\ \A i \in 1..(k - 1) - 1 + 1 : a[i] = q[1 + i - 1]
      BY <2>1, <3>1, SubSeqProperties
    <3> HIDE DEF a
    <3> QED BY <2>1, <3>2
  <2>4. /\ b \in Seq(S) /\ Len(b) = n - k
        /\ \A i \in 1..n - k : b[i] = q[k + i]
    <3>1. \A i \in k + 1..n : q[i] \in S
      BY <2>0, <2>1
    <3>2. /\ b \in Seq(S) /\ Len(b) = IF k + 1 <= n THEN n - (k + 1) + 1 ELSE 0
          /\ \A i \in 1..n - (k + 1) + 1 : b[i] = q[(k + 1) + i - 1]
      BY <2>0, <2>1, <3>1, SubSeqProperties
    <3> HIDE DEF b
    <3>3. \A i \in 1..n - k : b[i] = q[k + i]
      <4> SUFFICES ASSUME NEW i \in 1..n - k
                   PROVE  b[i] = q[k + i]
        OBVIOUS
      <4>1. i \in 1..n - (k + 1) + 1 /\ (k + 1) + i - 1 = k + i
        BY <2>0, <2>1
      <4> QED BY <3>2, <4>1
    <3>4. Len(b) = n - k
      <4>1. Len(b) = IF k + 1 <= n THEN n - (k + 1) + 1 ELSE 0
        BY <3>2
      <4>2. k \in Int /\ n \in Int /\ k <= n
        BY <2>0, <2>1
      <4>3. CASE k = n
        BY <4>1, <4>2, <4>3
      <4>4. CASE k # n
        <5>1. k + 1 <= n /\ n - (k + 1) + 1 = n - k
          BY <4>2, <4>4
        <5> QED BY <4>1, <5>1
      <4> QED BY <4>3, <4>4
    <3> QED BY <3>2, <3>3, <3>4
  <2> HIDE DEF a, b
  <2> DEFINE r == a \o b
             At1(i) == IF i < k THEN i ELSE i + 1
  <2>5. /\ r \in Seq(S) /\ Len(r) = n - 1 /\ DOMAIN r = 1..n - 1
        /\ \A i \in 1..n - 1 : r[i] = q[At1(i)]
    <3>1. /\ r \in Seq(S) /\ Len(r) = Len(a) + Len(b)
          /\ \A i \in 1..Len(a) + Len(b) : r[i] = IF i <= Len(a) THEN a[i] ELSE b[i - Len(a)]
      BY <2>3, <2>4, ConcatProperties
    <3>2. Len(a) + Len(b) = n - 1
      BY <2>0, <2>1, <2>3, <2>4
    <3>3. ASSUME NEW i \in 1..n - 1
          PROVE  r[i] = q[At1(i)]
      <4>1. CASE i < k
        <5>1. i \in 1..Len(a) + Len(b) /\ i <= Len(a) /\ i \in 1..k - 1
          BY <2>0, <2>1, <2>3, <3>2, <4>1
        <5>2. r[i] = a[i] /\ a[i] = q[i]
          BY <2>3, <3>1, <5>1
        <5> QED BY <4>1, <5>2
      <4>2. CASE ~(i < k)
        <5>1. /\ i \in 1..Len(a) + Len(b) /\ ~(i <= Len(a))
              /\ i - Len(a) \in 1..n - k /\ k + (i - Len(a)) = i + 1
          BY <2>0, <2>1, <2>3, <3>2, <4>2
        <5>2. r[i] = b[i - Len(a)]
          BY <3>1, <5>1
        <5>3. b[i - Len(a)] = q[k + (i - Len(a))]
          BY <2>4, <5>1
        <5> QED BY <4>2, <5>1, <5>2, <5>3
      <4> QED BY <4>1, <4>2
    <3>4. DOMAIN r = 1..n - 1
      BY <3>1, <3>2, LenProperties
    <3> QED BY <3>1, <3>2, <3>3, <3>4
  <2> HIDE DEF r
  <2>6. \A i \in 1..n - 1 : At1(i) \in 1..n /\ At1(i) # k
    BY <2>0, <2>1
  <2>7. \A i, j \in 1..n - 1 : At1(i) = At1(j) => i = j
    BY <2>0, <2>1
  <2>8. \A j \in 1..n : j # k => \E i \in 1..n - 1 : At1(i) = j
    <3> SUFFICES ASSUME NEW j \in 1..n, j # k
                 PROVE  \E i \in 1..n - 1 : At1(i) = j
      OBVIOUS
    <3>1. CASE j < k
      <4>1. j \in 1..n - 1 /\ At1(j) = j
        BY <2>0, <2>1, <3>1
      <4> QED BY <4>1
    <3>2. CASE ~(j < k)
      <4>1. j - 1 \in 1..n - 1 /\ ~(j - 1 < k) /\ (j - 1) + 1 = j
        BY <2>0, <2>1, <3>2
      <4> QED BY <4>1
    <3> QED BY <3>1, <3>2
  <2> HIDE DEF At1
  <2>9. \A i, j \in 1..n : q[i] = q[j] => i = j
    BY <2>0 DEF IsInjective
  <2>10. IsInjective(r)
    BY <2>5, <2>6, <2>7, <2>9 DEF IsInjective
  <2>11. ToSet(r) = ToSet(q) \ {s}
    <3>1. ASSUME NEW x \in ToSet(r)
          PROVE  x \in ToSet(q) \ {s}
      <4>1. PICK i \in 1..n - 1 : x = q[At1(i)]
        BY <2>5 DEF ToSet
      <4> QED BY <2>0, <2>1, <2>6, <2>9, <4>1 DEF ToSet
    <3>2. ASSUME NEW x \in ToSet(q) \ {s}
          PROVE  x \in ToSet(r)
      <4>1. PICK j \in 1..n : x = q[j] /\ j # k
        BY <2>0, <2>1 DEF ToSet
      <4>2. PICK i \in 1..n - 1 : At1(i) = j
        BY <2>8, <4>1
      <4> QED BY <2>5, <4>1, <4>2 DEF ToSet
    <3> QED BY <3>1, <3>2
  <2> QED BY <2>2, <2>5, <2>10, <2>11 DEF r
<1> QED BY <1>1, <1>2

(* ZADD puts the member in front of the others.                            *)
LEMMA TouchedFacts ==
  ASSUME NEW S, NEW q \in Seq(S), IsInjective(q), NEW s \in S
  PROVE  /\ Touched(q, s) \in Seq(S) /\ IsInjective(Touched(q, s))
         /\ ToSet(Touched(q, s)) = ToSet(q) \cup {s}
<1> DEFINE r == Removed(q, s)
           t == <<s>> \o r
<1>1. r \in Seq(S) /\ IsInjective(r) /\ ToSet(r) = ToSet(q) \ {s}
  BY RemovedFacts
<1> HIDE DEF r
<1>2. <<s>> \in Seq(S) /\ ToSet(<<s>>) = {s} /\ Len(<<s>>) = 1 /\ <<s>>[1] = s
  BY SingleSeq
<1>3. t \in Seq(S) /\ ToSet(t) = {s} \cup ToSet(r)
  <2>1. \A u \in Seq(S) : u \o r \in Seq(S) /\ ToSet(u \o r) = ToSet(u) \cup ToSet(r)
    BY <1>1, ConcatSet
  <2> QED BY <1>2, <2>1
<1>4. IsInjective(t)
  <2>1. /\ Len(t) = 1 + Len(r)
        /\ \A i \in 1..1 + Len(r) : t[i] = IF i <= 1 THEN s ELSE r[i - 1]
    <3>1. /\ Len(t) = Len(<<s>>) + Len(r)
          /\ \A i \in 1..Len(<<s>>) + Len(r) :
               t[i] = IF i <= Len(<<s>>) THEN <<s>>[i] ELSE r[i - Len(<<s>>)]
      BY <1>1, <1>2, ConcatProperties
    <3>2. Len(r) \in Nat
      BY <1>1, LenProperties
    <3> QED BY <1>2, <3>1, <3>2
  <2>2. /\ DOMAIN t = 1..1 + Len(r) /\ DOMAIN r = 1..Len(r) /\ Len(r) \in Nat
    BY <1>1, <1>3, <2>1, LenProperties
  <2>3. \A i \in 1..Len(r) : r[i] # s
    BY <1>1, <2>2 DEF ToSet
  <2>4. \A i, j \in 1..Len(r) : r[i] = r[j] => i = j
    BY <1>1, <2>2 DEF IsInjective
  <2> SUFFICES ASSUME NEW i \in 1..1 + Len(r), NEW j \in 1..1 + Len(r), t[i] = t[j]
               PROVE  i = j
    BY <2>2 DEF IsInjective
  <2> HIDE DEF t
  <2>5. CASE i = 1 /\ j = 1
    BY <2>5
  <2>6. CASE i = 1 /\ j # 1
    <3>1. j - 1 \in 1..Len(r) /\ t[i] = s /\ t[j] = r[j - 1]
      BY <2>1, <2>2, <2>6
    <3> QED BY <2>3, <3>1
  <2>7. CASE i # 1 /\ j = 1
    <3>1. i - 1 \in 1..Len(r) /\ t[j] = s /\ t[i] = r[i - 1]
      BY <2>1, <2>2, <2>7
    <3> QED BY <2>3, <3>1
  <2>8. CASE i # 1 /\ j # 1
    <3>1. /\ i - 1 \in 1..Len(r) /\ t[i] = r[i - 1]
          /\ j - 1 \in 1..Len(r) /\ t[j] = r[j - 1]
      BY <2>1, <2>2, <2>8
    <3>2. i - 1 = j - 1
      BY <2>4, <3>1
    <3> QED BY <2>2, <3>2
  <2> QED BY <2>5, <2>6, <2>7, <2>8
<1>5. Touched(q, s) = t
  BY DEF Touched, r
<1> QED BY <1>1, <1>3, <1>4, <1>5
-----------------------------------------------------------------------------
(* The record of a process: what its operation and step say of the rest.   *)

WebSteps  == {"current", "known", "exists", "switch", "point", "card", "top", "create", "sessions",
              "relist", "history", "stream", "append", "del_read", "del", "reselect", "repoint"}
TurnSteps == {"user", "incr", "set_user", "chat", "bound", "create", "bind", "history", "stream",
              "append", "reply"}             \* of the hub, with a slot
ImSteps   == TurnSteps \cup {"mark", "slot", "hint", "send", "done", "lost"}
AllSteps  == WebSteps \cup ImSteps \cup {"idle"}
SidSteps  == {"known", "exists", "bound", "switch", "point", "history", "stream", "append",
              "del_read", "del", "bind"}     \* a session is in hand
OwnSteps  == {"set_user", "chat", "bound", "create", "bind", "history", "stream", "append"}
AllOps    == WebOps \cup {"none", "im"}
AllRequests == UNION {Requests[p] : p \in Procs}

ProcRecs == [op : AllOps, uid : Uids, sid : Sids \cup {None}, step : AllSteps,
             cur : Sids \cup {None}, mig : {"no", "read", "done"}, canceled : BOOLEAN,
             hist : Seq(0..Calls), req : AllRequests \cup {None}]

Placed(r) ==
  /\ r.op = "none" <=> r.step = "idle"
  /\ r.op = "web" => r.step \in {"done", "lost"}
  /\ r.op \in WebOps \ {"web"} => r.step \in WebSteps
  /\ r.op = "im" => r.step \in ImSteps
  /\ r.op = "im" /\ r.step # "done" => Adapter(r.req) \in Inbounds
  /\ r.op = "im" /\ r.step = "mark" => Adapter(r.req).event # None
  /\ r.step \in SidSteps => r.sid \in Sids
  /\ r.op # "im" => r.uid = WebUser
  /\ r.op = "im" /\ r.step \in OwnSteps => r.uid # WebUser
  /\ r.mig # "no" => r.step \in StoreSteps
  /\ r.step \in {"sessions", "relist"} => r.op = "list"

ProcInv == proc \in [Procs -> ProcRecs] /\ \A p \in Procs : Placed(proc[p])

UserRecs == [index : {q \in Seq(Sids) : IsInjective(q)}, current : Sids \cup {None},
             msgs : [Sids -> Seq(0..Calls)], legacy : BOOLEAN]
StoreTyped == store \in [Uids -> UserRecs]

(* A process may still create one session, or draw one user id.            *)
MayCreate(r) == /\ r.step \in {"idle", "mark", "slot", "user", "incr", "set_user", "chat", "bound",
                               "sessions", "current", "exists", "card", "top", "create"}
                /\ ~(r.op = "list" /\ r.step = "current")
MayIncr(r)   == r.step \in {"idle", "mark", "slot", "user", "incr"}
Creators == {p \in Procs : MayCreate(proc[p])}
Drawers  == {p \in Procs : MayIncr(proc[p])}
Counted  == /\ made \in Nat /\ made + Cardinality(Creators) <= Calls
            /\ seq \in Nat /\ seq + Cardinality(Drawers) <= Calls

HubTyped ==
  /\ ids \in [Users -> (Uids \ {WebUser}) \cup {None}]
  /\ chats \in [Chats -> Sids \cup {None}]
  /\ seen \in SUBSET Events /\ unsure \in SUBSET Events
  /\ replied \in [Procs -> BOOLEAN]
RestTyped == expiries \in 0..Expiries /\ misread \in BOOLEAN /\ gone \in SUBSET (Uids \X Sids)

Holders == {p \in Procs : Held(p)}
Slots   == sem = Cardinality(Holders) /\ sem <= MaxConc

BaseInv == StoreTyped /\ ProcInv /\ Counted /\ HubTyped /\ RestTyped /\ Slots

-----------------------------------------------------------------------------
(* The kinds of steps of a process: it takes a request, goes on to another *)
(* step with a new record r, leaves its turn, or stays where it is.        *)

Becomes(p, r) == proc' = [proc EXCEPT ![p] = r]

Arrives(p, r) ==
  /\ proc[p].step = "idle" /\ Becomes(p, r) /\ r \in ProcRecs /\ Placed(r)
  /\ r.hist = <<>> /\ r.mig = "no" /\ r.uid = WebUser
  /\ \/ r.op = "web" /\ sem' = sem
     \/ /\ r.op \in WebOps \ {"web"} /\ r.step \in {"sessions", "create", "known", "current", "del_read"}
        /\ sem' = sem + SlotsOf(r.op) /\ sem' <= MaxConc
     \/ /\ r.op = "im" /\ r.step \in {"mark", "slot", "hint", "done"} /\ sem' = sem
        /\ r.step \in {"slot", "hint"} => Adapter(r.req).event = None

Leaves(p) ==
  /\ \/ proc[p].op = "im" /\ proc[p].step \in TurnSteps \ {"reply"}
     \/ proc[p].op \in WebOps \ {"web"}
  /\ Becomes(p, Ended(proc[p])) /\ sem' = sem - SlotsOf(proc[p].op)

MigEdges == {<<"no", "read">>, <<"no", "done">>, <<"read", "done">>}
Lingers(p, r) ==
  /\ Becomes(p, r) /\ r \in ProcRecs /\ Placed(r) /\ sem' = sem
  /\ r.op = proc[p].op /\ r.uid = proc[p].uid /\ r.sid = proc[p].sid /\ r.step = proc[p].step
  /\ r.hist = proc[p].hist /\ r.req = proc[p].req
  /\ r.mig = "read" => proc[p].mig = "read" \/ NeedsMigration(r.uid)
  /\ \/ r.canceled = proc[p].canceled /\ <<proc[p].mig, r.mig>> \in MigEdges
     \/ ~proc[p].canceled /\ r.canceled /\ r.mig = proc[p].mig

Edge(op, s, t) ==
  \/ s = "mark"     /\ t \in {"slot", "hint", "done"}
  \/ s = "slot"     /\ t \in {"user", "send"}
  \/ s = "user"     /\ t \in {"chat", "incr"}
  \/ s = "incr"     /\ t = "set_user"
  \/ s = "set_user" /\ t = "chat"
  \/ s = "chat"     /\ t \in {"bound", "create"}
  \/ s = "bound"    /\ t \in {"history", "create"}
  \/ s = "bind"     /\ t = "history"
  \/ s = "reply"    /\ t = "send"
  \/ s \in {"send", "hint"} /\ t = "done"
  \/ s = "current"  /\ op # "list" /\ t \in {"card", "exists", "del_read"}
  \/ s = "known"    /\ t \in {"del_read", "switch"}
  \/ s = "exists"   /\ t \in {"history", "card"}
  \/ s = "switch"   /\ t \in {"point", "history"}
  \/ s = "point"    /\ t = "history"
  \/ s = "card"     /\ t \in {"create", "top"}
  \/ s = "top"      /\ t \in {"point", "create"}
  \/ s = "create"   /\ op = "im" /\ t = "bind"
  \/ s = "create"   /\ op = "list" /\ t = "relist"
  \/ s = "create"   /\ op \notin {"im", "list"} /\ t = "history"
  \/ s = "sessions" /\ t \in {"create", "current"} /\ op = "list"
  \/ s = "relist"   /\ t = "current" /\ op = "list"
  \/ s = "history"  /\ t = "stream"
  \/ s = "stream"   /\ t = "append"
  \/ s = "del_read" /\ t = "del"
  \/ s = "del"      /\ t = "reselect"
  \/ s = "reselect" /\ t = "repoint"

(* Where the user, the session and the history in hand come from.          *)
UidMoves(p, r) ==
  IF proc[p].step = "incr" THEN r.uid = NewUid /\ seq' = seq + 1
  ELSE IF proc[p].step = "user" /\ r.step = "chat" THEN r.uid = ids[In(p).user]
  ELSE r.uid = proc[p].uid
SidMoves(p, r) == \/ r.sid = proc[p].sid
                  \/ proc[p].step = "current" /\ r.step \in {"card", "exists", "del_read"}
                  \/ proc[p].step = "top" /\ r.step = "point" /\ r.sid \in Listed(proc[p].uid)
                  \/ proc[p].step = "create" /\ r.sid = made + 1
                  \/ proc[p].step = "chat" /\ r.step = "bound"
HistMoves(p, r) == \/ r.hist = proc[p].hist
                   \/ proc[p].step = "history" /\ r.hist = Suffix(Mine(p).msgs[proc[p].sid])
SemMoves(p, r) == IF proc[p].step = "slot" /\ r.step = "user" THEN sem < MaxConc /\ sem' = sem + 1
                  ELSE IF proc[p].step = "reply" THEN sem' = ReleaseAgentSlot
                  ELSE sem' = sem

Moves(p, r) ==
  /\ Becomes(p, r) /\ r \in ProcRecs /\ Placed(r)
  /\ r.op = proc[p].op /\ r.req = proc[p].req /\ r.mig \in {"no", proc[p].mig}
  /\ Edge(proc[p].op, proc[p].step, r.step)
  /\ UidMoves(p, r) /\ SidMoves(p, r) /\ HistMoves(p, r) /\ SemMoves(p, r)
(* There are finitely many requests, so any set of them can be counted.    *)
LEMMA ProcsFinite ==
  /\ IsFiniteSet(Procs)
  /\ \A S \in SUBSET Procs : IsFiniteSet(S) /\ Cardinality(S) \in Nat
<1>1. IsFiniteSet(Procs)
  BY Numbers, FS_Interval DEF Procs
<1> QED BY <1>1, FS_Subset, FS_CardinalityType

(* A set of processes that gains none, and loses p if it had it.           *)
LEMMA CountDown ==
  ASSUME NEW S \in SUBSET Procs, NEW T \in SUBSET S
  PROVE  /\ Cardinality(T) \in Nat /\ Cardinality(S) \in Nat /\ Cardinality(T) <= Cardinality(S)
         /\ \A p \in S : p \notin T => Cardinality(T) + 1 <= Cardinality(S)
<1>1. /\ IsFiniteSet(S) /\ Cardinality(S) \in Nat
      /\ IsFiniteSet(T) /\ Cardinality(T) \in Nat /\ Cardinality(T) <= Cardinality(S)
  BY ProcsFinite, FS_Subset
<1>2. ASSUME NEW p \in S, p \notin T
      PROVE  Cardinality(T) + 1 <= Cardinality(S)
  <2>1. T \cup {p} \in SUBSET S
    BY <1>2
  <2>2. Cardinality(T \cup {p}) = Cardinality(T) + 1
    BY <1>1, <1>2, FS_AddElement
  <2>3. Cardinality(T \cup {p}) <= Cardinality(S)
    BY <1>1, <2>1, FS_Subset
  <2> QED BY <2>2, <2>3
<1> QED BY <1>1, <1>2

(* Ids that are still to be drawn are within their types.                  *)
LEMMA CountsFit ==
  ASSUME BaseInv
  PROVE  /\ made \in Sids /\ seq \in 0..Calls
         /\ \A p \in Procs : MayCreate(proc[p]) => made + 1 \in Sids
         /\ \A p \in Procs : MayIncr(proc[p]) => NewUid \in Uids \ {WebUser} /\ seq + 1 \in 0..Calls
<1>1. Creators \in SUBSET Procs /\ Drawers \in SUBSET Procs
  BY DEF Creators, Drawers
<1>2. Cardinality(Creators) \in Nat /\ Cardinality(Drawers) \in Nat
  BY <1>1, ProcsFinite
<1>3. made \in Sids /\ seq \in 0..Calls
  BY <1>2, Numbers DEF BaseInv, Counted, Sids
<1>4. ASSUME NEW p \in Procs, MayCreate(proc[p])
      PROVE  made + 1 \in Sids
  <2>1. {} \in SUBSET Creators /\ p \in Creators
    BY <1>4 DEF Creators
  <2>2. Cardinality({}) + 1 <= Cardinality(Creators)
    BY <1>1, <2>1, CountDown
  <2> QED BY <1>2, <2>2, FS_EmptySet, Numbers DEF BaseInv, Counted, Sids
<1>5. ASSUME NEW p \in Procs, MayIncr(proc[p])
      PROVE  NewUid \in Uids \ {WebUser} /\ seq + 1 \in 0..Calls
  <2>1. {} \in SUBSET Drawers /\ p \in Drawers
    BY <1>5 DEF Drawers
  <2>2. Cardinality({}) + 1 <= Cardinality(Drawers)
    BY <1>1, <2>1, CountDown
  <2>3. seq + 1 \in 0..Calls /\ seq \in Nat
    BY <1>2, <2>2, FS_EmptySet, Numbers DEF BaseInv, Counted
  <2> QED BY <2>3, Numbers DEF NewUid, WebUser, Uids
<1> QED BY <1>3, <1>4, <1>5

(* Of a process at work: the record of its user and its own.               *)
LEMMA ProcFacts ==
  ASSUME BaseInv, NEW p \in Procs
  PROVE  /\ proc[p] \in ProcRecs /\ Placed(proc[p]) /\ Mine(p) \in UserRecs
         /\ proc[p].uid \in Uids /\ proc[p].op \in AllOps /\ proc[p].step \in AllSteps
         /\ proc[p].sid \in Sids \cup {None} /\ proc[p].hist \in Seq(0..Calls)
         /\ proc[p].cur \in Sids \cup {None} /\ proc[p].mig \in {"no", "read", "done"}
         /\ Mine(p).index \in Seq(Sids) /\ IsInjective(Mine(p).index)
         /\ Mine(p).current \in Sids \cup {None}
         /\ \A s \in Sids : Mine(p).msgs[s] \in Seq(0..Calls)
<1>1. proc[p] \in ProcRecs /\ Placed(proc[p])
  BY DEF BaseInv, ProcInv
<1>2. proc[p].uid \in Uids
  BY <1>1 DEF ProcRecs
<1>3. Mine(p) \in UserRecs
  BY <1>2 DEF BaseInv, StoreTyped, Mine
<1> QED BY <1>1, <1>3 DEF ProcRecs, UserRecs

(* Along an edge of the graph of steps a record stays placed, when the     *)
(* session and the user are there that the next step needs.                *)
LEMMA EdgePlaced ==
  ASSUME NEW o, Placed(o), NEW r, r.op = o.op, r.req = o.req, Edge(o.op, o.step, r.step),
         r.step \in SidSteps => r.sid \in Sids,
         r.op # "im" => r.uid = WebUser,
         r.op = "im" /\ r.step \in OwnSteps => r.uid # WebUser,
         r.mig = "no"
  PROVE  Placed(r)
<1>1. r.step # "idle" /\ r.op \notin {"none", "web"}
  BY DEF Placed, Edge, WebSteps, ImSteps, TurnSteps
<1>2. r.op \in WebOps \ {"web"} => r.step \in WebSteps
  BY DEF Placed, Edge, WebSteps, WebOps
<1>3. r.op = "im" => r.step \in ImSteps
  BY DEF Placed, Edge, ImSteps, TurnSteps
<1>4. r.op = "im" => o.step # "done" /\ r.step # "mark"
  BY DEF Edge
<1>5. r.step \in {"sessions", "relist"} => r.op = "list"
  BY DEF Edge
<1> QED BY <1>1, <1>2, <1>3, <1>4, <1>5 DEF Placed

(* The steps that only messages of the hub take.                           *)
LEMMA ImOp ==
  ASSUME BaseInv, NEW p \in Procs,
         proc[p].step \in {"mark", "slot", "user", "incr", "set_user", "chat", "bound", "bind",
                           "reply", "send", "hint"}
  PROVE  proc[p].op = "im" /\ proc[p].mig \in {"no", "read", "done"}
BY ProcFacts DEF Placed, AllOps, WebSteps

(* Goto, when the call goes on.                                            *)
LEMMA GotoMoves ==
  ASSUME BaseInv, NEW p \in Procs, NEW n \in ProcRecs, Goto(p, n),
         n.op = proc[p].op, n.req = proc[p].req,
         Edge(proc[p].op, proc[p].step, n.step),
         proc[p].step # "reply", proc[p].step = "slot" => n.step = "send",
         UidMoves(p, n), SidMoves(p, n), HistMoves(p, n),
         n.step \in SidSteps => n.sid \in Sids,
         n.op # "im" => n.uid = WebUser,
         n.op = "im" /\ n.step \in OwnSteps => n.uid # WebUser
  PROVE  \E r \in ProcRecs : Moves(p, r) /\ r.step = n.step
<1> DEFINE r == [n EXCEPT !.mig = "no"]
<1>1. r \in ProcRecs
  BY DEF ProcRecs
<1>2. /\ r.op = n.op /\ r.req = n.req /\ r.step = n.step /\ r.uid = n.uid /\ r.sid = n.sid
      /\ r.hist = n.hist /\ r.mig = "no"
  BY DEF ProcRecs
<1>3. n.step # "end"
  BY DEF ProcRecs, AllSteps, WebSteps, ImSteps, TurnSteps
<1>4. Becomes(p, r) /\ sem' = sem
  BY <1>3 DEF Goto, Becomes
<1> HIDE DEF r
<1>5. Placed(r)
  BY <1>2, ProcFacts, EdgePlaced
<1>6. UidMoves(p, r) /\ SidMoves(p, r) /\ HistMoves(p, r)
  BY <1>2 DEF UidMoves, SidMoves, HistMoves
<1>7. SemMoves(p, r)
  BY <1>2, <1>4 DEF SemMoves
<1> QED BY <1>1, <1>2, <1>4, <1>5, <1>6, <1>7 DEF Moves

(* The same for a step that changes nothing but the place.                 *)
LEMMA ToMoves ==
  ASSUME BaseInv, NEW p \in Procs, NEW s \in AllSteps, To(p, s),
         Edge(proc[p].op, proc[p].step, s),
         proc[p].step # "reply", proc[p].step = "slot" => s = "send",
         s \in SidSteps => proc[p].step \in SidSteps,
         proc[p].op = "im" /\ s \in OwnSteps => proc[p].step \in OwnSteps
  PROVE  \E r \in ProcRecs : Moves(p, r) /\ r.step = s
<1> DEFINE n == [proc[p] EXCEPT !.step = s]
<1>1. n \in ProcRecs
  BY ProcFacts DEF ProcRecs
<1>2. /\ n.op = proc[p].op /\ n.req = proc[p].req /\ n.step = s /\ n.uid = proc[p].uid
      /\ n.sid = proc[p].sid /\ n.hist = proc[p].hist
  BY ProcFacts DEF ProcRecs
<1>3. Goto(p, n)
  BY DEF To
<1> HIDE DEF n
<1>4. UidMoves(p, n) /\ SidMoves(p, n) /\ HistMoves(p, n)
  <2>1. proc[p].step # "incr" /\ ~(proc[p].step = "user" /\ s = "chat")
    BY ImOp DEF Edge, OwnSteps
  <2> QED BY <1>2, <2>1 DEF UidMoves, SidMoves, HistMoves
<1>5. /\ n.step \in SidSteps => n.sid \in Sids
      /\ n.op # "im" => n.uid = WebUser
      /\ n.op = "im" /\ n.step \in OwnSteps => n.uid # WebUser
  BY <1>2, ProcFacts DEF Placed
<1> QED BY <1>1, <1>2, <1>3, <1>4, <1>5, GotoMoves

(* Goto "end": the slot of a chat is given back, a turn of the hub has its *)
(* reply to send.                                                          *)
LEMMA ToLeaves ==
  ASSUME BaseInv, NEW p \in Procs, proc[p].step \in WebSteps \cup (TurnSteps \ {"reply"}),
         NEW n, n.step = "end", n.op = proc[p].op, n.req = proc[p].req, Goto(p, n)
  PROVE  Leaves(p)
<1>1. \/ proc[p].op = "im" /\ proc[p].step \in TurnSteps \ {"reply"}
      \/ proc[p].op \in WebOps \ {"web"}
  BY ProcFacts DEF Placed, ProcRecs, AllOps, WebSteps, TurnSteps, ImSteps
<1>2. Ended(n) = Ended(proc[p])
  BY DEF Ended
<1> QED BY <1>1, <1>2 DEF Goto, Leaves, Becomes

(* The same for an ending that changes nothing but the place.              *)
LEMMA ToEnd ==
  ASSUME BaseInv, NEW p \in Procs, proc[p].step \in WebSteps \cup (TurnSteps \ {"reply"}),
         To(p, "end")
  PROVE  Leaves(p)
<1> DEFINE n == [proc[p] EXCEPT !.step = "end"]
<1>1. n.step = "end" /\ n.op = proc[p].op /\ n.req = proc[p].req
  BY ProcFacts DEF ProcRecs
<1>2. Goto(p, n)
  BY DEF To
<1> HIDE DEF n
<1> QED BY <1>1, <1>2, ToLeaves

-----------------------------------------------------------------------------
(* Every action is of one of the kinds.                                    *)

Goes(p) == Leaves(p) \/ \E r \in ProcRecs : Moves(p, r)

(* A change of place along an edge, or to the end, is a Goes.              *)
LEMMA ToGoes ==
  ASSUME BaseInv, NEW p \in Procs, NEW s, To(p, s),
         \/ s = "end" /\ proc[p].step \in WebSteps \cup (TurnSteps \ {"reply"})
         \/ /\ s \in AllSteps
            /\ Edge(proc[p].op, proc[p].step, s)
            /\ proc[p].step # "reply" /\ (proc[p].step = "slot" => s = "send")
            /\ s \in SidSteps => proc[p].step \in SidSteps
            /\ proc[p].op = "im" /\ s \in OwnSteps => proc[p].step \in OwnSteps
  PROVE  Goes(p)
BY ToEnd, ToMoves DEF Goes

(* The two halves of the legacy migration leave the call where it was.     *)
LEMMA MigrateKind ==
  ASSUME BaseInv, NEW p \in Procs, MigrateReads(p) \/ MigratePipe(p)
  PROVE  \E r \in ProcRecs : Lingers(p, r)
<1> DEFINE n(m) == [proc[p] EXCEPT !.mig = m]
<1>1. PICK m \in {"read", "done"} :
        /\ proc' = [proc EXCEPT ![p] = n(m)]
        /\ m = "read" => NeedsMigration(proc[p].uid)
        /\ <<proc[p].mig, m>> \in MigEdges
  BY ProcFacts DEF MigEdges, MigrateReads, MigratePipe, ProcInv, BaseInv
<1>2. n(m) \in ProcRecs
  BY ProcFacts DEF ProcRecs
<1>3. /\ n(m).op = proc[p].op /\ n(m).uid = proc[p].uid /\ n(m).sid = proc[p].sid
      /\ n(m).step = proc[p].step /\ n(m).hist = proc[p].hist /\ n(m).req = proc[p].req
      /\ n(m).mig = m /\ n(m).canceled = proc[p].canceled
  BY ProcFacts DEF ProcRecs
<1>4. proc[p].step \in StoreSteps
  BY ProcFacts DEF MigrateReads, MigratePipe, Placed
<1> DEFINE r == n(m)
<1> HIDE DEF n
<1>5. Placed(r)
  BY <1>3, <1>4, ProcFacts DEF Placed
<1>6. sem' = sem
  BY DEF MigrateReads, MigratePipe
<1> QED BY <1>1, <1>2, <1>3, <1>5, <1>6 DEF Lingers, Becomes

-----------------------------------------------------------------------------
(* What a step of p does to the rest of the state: the keys of its user,   *)
(* the ids drawn, the record of deleted sessions and the keys of the hub.  *)

NewSids(p) == IF proc[p].mig = "read" THEN {LegacySid}
              ELSE IF proc[p].step = "append" THEN {proc[p].sid} ELSE {made'} \ {made}
NewMsgs(p, s) == IF proc[p].mig = "read" THEN IF s = LegacySid THEN {0} ELSE {}
                 ELSE IF proc[p].step = "append" /\ s = proc[p].sid THEN {p} ELSE {}
Written(p, n) ==
  /\ \A s \in ToSet(n.index) : s \in Listed(proc[p].uid) \cup NewSids(p)
  /\ \A s \in Sids : \A m \in ToSet(n.msgs[s]) : m \in ToSet(Mine(p).msgs[s]) \cup NewMsgs(p, s)
  /\ n.legacy => Mine(p).legacy
  /\ proc[p].mig = "read" => ~n.legacy
Writes(p) ==
  \/ store' = store
  \/ \E n \in UserRecs : Written(p, n) /\ store' = [store EXCEPT ![proc[p].uid] = n]

Makes(p) == \/ made' = made
            \/ proc[p].step = "create" /\ ~MayCreate(proc'[p]) /\ made' = made + 1
Buries(p) ==
  \/ gone' = gone
  \/ /\ proc[p].step = "del" /\ gone' = gone \cup {<<proc[p].uid, proc[p].sid>>}
     /\ proc[p].sid \in Listed(proc[p].uid) /\ proc[p].sid \notin ToSet(store'[proc[p].uid].index)
     /\ ~\E q \in Procs : InSession(q, proc[p].uid, proc[p].sid)
Keeps(p) == Makes(p) /\ Buries(p) /\ expiries' = expiries /\ misread' \in BOOLEAN

Marks(p) ==
  LET e == In(p).event
      next == proc'[p].step
  IN  \/ UNCHANGED <<seen, unsure>> /\ (proc[p].step = "mark" => next \in {"mark", "done"})
      \/ proc[p].step = "mark" /\ e \notin seen /\ seen' = seen \cup {e} /\ unsure' = unsure
      \/ proc[p].step = "mark" /\ seen' \in {seen, seen \cup {e}} /\ unsure' = unsure \cup {e}
Answers(p) == \/ replied' = replied
              \/ proc[p].step \in {"send", "hint"} /\ replied' = [replied EXCEPT ![p] = TRUE]
HubKeys(p) ==
  /\ seq' = seq \/ (proc[p].step = "incr" /\ ~MayIncr(proc'[p]) /\ seq' = seq + 1)
  /\ ids' = ids \/ (proc[p].step = "set_user" /\ ids' = [ids EXCEPT ![In(p).user] = proc[p].uid])
  /\ chats' = chats \/ (proc[p].step = "bind" /\ chats' = [chats EXCEPT ![In(p).chat] = proc[p].sid])
  /\ Marks(p) /\ Answers(p)

(* The steps that only read the session store go on along an edge.         *)
LEMMA ReadersGo ==
  ASSUME BaseInv, NEW p \in Procs,
         \/ SessionExists(p) \/ SetCurrentSession(p) \/ CountSessions(p) \/ ListSessions(p)
         \/ AgentFails(p) \/ AgentStreams(p)
  PROVE  Goes(p)
<1>1. /\ proc[p].op \in AllOps /\ Placed(proc[p])
      /\ proc[p].op = "im" => proc[p].step \in ImSteps
  BY ProcFacts DEF Placed
<1>2. CASE SessionExists(p)
  <2>1. PICK s \in {"end", "del_read", "switch", "history", "card", "create"} :
          To(p, s) /\ \/ proc[p].step = "known" /\ s \in {"end", "del_read", "switch"}
                      \/ proc[p].step = "exists" /\ s \in {"history", "card"}
                      \/ proc[p].step = "bound" /\ s \in {"history", "create"}
    BY <1>2 DEF SessionExists, At
  <2> QED BY <2>1, <1>1, ToGoes DEF Edge, AllSteps, WebSteps, ImSteps, TurnSteps, SidSteps, OwnSteps
<1>3. CASE SetCurrentSession(p)
  <2>1. PICK s \in {"point", "history"} : To(p, s) /\ proc[p].step = "switch"
    BY <1>3 DEF SetCurrentSession, At
  <2> QED BY <2>1, <1>1, ToGoes DEF Edge, AllSteps, WebSteps, ImSteps, TurnSteps, SidSteps, OwnSteps
<1>4. CASE CountSessions(p)
  <2>1. PICK s \in {"create", "top", "end"} : To(p, s) /\ proc[p].step = "card"
    BY <1>4 DEF CountSessions, At
  <2> QED BY <2>1, <1>1, ToGoes DEF Edge, AllSteps, WebSteps, ImSteps, TurnSteps, SidSteps, OwnSteps
<1>5. CASE ListSessions(p)
  <2>1. PICK s \in {"create", "current", "end"} :
          To(p, s) /\ \/ proc[p].step = "sessions"
                      \/ proc[p].step = "relist" /\ s # "create"
    BY <1>5 DEF ListSessions, At
  <2> QED BY <2>1, <1>1, ToGoes DEF Edge, AllSteps, WebSteps, ImSteps, TurnSteps, SidSteps, OwnSteps, Placed
<1>6. CASE AgentFails(p) \/ AgentStreams(p)
  <2>1. PICK s \in {"append", "end"} : To(p, s) /\ proc[p].step = "stream"
    BY <1>6 DEF AgentFails, AgentStreams, At
  <2> QED BY <2>1, <1>1, ToGoes DEF Edge, AllSteps, WebSteps, ImSteps, TurnSteps, SidSteps, OwnSteps
<1> QED BY <1>2, <1>3, <1>4, <1>5, <1>6

(* Goto with other values in hand.                                         *)
LEMMA GotoGoes ==
  ASSUME BaseInv, NEW p \in Procs, NEW n \in ProcRecs, Goto(p, n),
         n.op = proc[p].op, n.req = proc[p].req, n.uid = proc[p].uid,
         Edge(proc[p].op, proc[p].step, n.step), proc[p].step \notin {"slot", "reply"},
         SidMoves(p, n), HistMoves(p, n),
         n.step \in SidSteps => n.sid \in Sids,
         proc[p].op = "im" /\ n.step \in OwnSteps => proc[p].step \in OwnSteps
  PROVE  Goes(p)
<1>1. UidMoves(p, n)
  <2>1. proc[p].step # "incr" /\ ~(proc[p].step = "user" /\ n.step = "chat")
    BY ImOp DEF Edge, OwnSteps
  <2> QED BY <2>1 DEF UidMoves
<1>2. /\ n.op # "im" => n.uid = WebUser
      /\ n.op = "im" /\ n.step \in OwnSteps => n.uid # WebUser
  BY ProcFacts DEF Placed
<1> QED BY <1>1, <1>2, GotoMoves DEF Goes

(* So do the steps that take a session or a history from what they read.   *)
LEMMA PickersGo ==
  ASSUME BaseInv, NEW p \in Procs,
         \/ GetCurrentSessionID(p) \/ NewestSession(p) \/ ListMessages(p)
         \/ ReadsCurrent(p) \/ Reselect(p)
  PROVE  Goes(p)
<1>0. /\ proc[p] \in ProcRecs /\ proc[p].op \in AllOps /\ Placed(proc[p]) /\ Mine(p).index \in Seq(Sids)
      /\ Mine(p).current \in Sids \cup {None}
      /\ proc[p].op = "im" => proc[p].step \in ImSteps
  BY ProcFacts DEF Placed
<1>1. Mine(p).index # <<>> => Head(Mine(p).index) \in Sids /\ Head(Mine(p).index) \in Listed(proc[p].uid)
  <2>1. ASSUME Mine(p).index # <<>>
        PROVE  1 \in 1..Len(Mine(p).index) /\ Head(Mine(p).index) = Mine(p).index[1]
    BY <1>0, <2>1, EmptySeq, HeadTailProperties
  <2> QED BY <1>0, <2>1, ElementOfSeq, LenProperties DEF Listed, ToSet, Mine
<1>2. CASE GetCurrentSessionID(p)
  <2>0. proc[p].step = "current" /\ proc[p].op # "im"
    BY <1>0, <1>2 DEF GetCurrentSessionID, At, ImSteps, TurnSteps
  <2>1. CASE To(p, "end")
    BY <2>0, <2>1, ToGoes DEF WebSteps
  <2>2. CASE ~To(p, "end")
    <3> DEFINE cur == Mine(p).current
               s == AfterCurrent(proc[p].op, cur)
               n == [proc[p] EXCEPT !.sid = cur, !.step = s]
    <3>1. Goto(p, n)
      BY <1>2, <2>2 DEF GetCurrentSessionID
    <3>2. n.step = s /\ n.op = proc[p].op /\ n.req = proc[p].req
      BY <1>0 DEF ProcRecs
    <3>3. CASE s = "end"
      <4> HIDE DEF n, s
      <4> QED BY <2>0, <3>1, <3>2, <3>3, ToLeaves DEF WebSteps, Goes
    <3>4. CASE s # "end"
      <4>1. /\ s \in {"del_read", "card", "exists"} /\ proc[p].op # "list"
            /\ s \in SidSteps => cur \in Sids
        BY <1>0, <3>4 DEF AfterCurrent, SidSteps
      <4>2. n \in ProcRecs
        BY <1>0, <4>1 DEF ProcRecs, AllSteps, WebSteps
      <4>3. n.uid = proc[p].uid /\ n.sid = cur /\ n.hist = proc[p].hist
        BY <1>0 DEF ProcRecs
      <4> HIDE DEF n, s, cur
      <4>4. Edge(proc[p].op, proc[p].step, n.step)
        BY <2>0, <3>2, <4>1 DEF Edge
      <4>5. SidMoves(p, n) /\ HistMoves(p, n)
        BY <2>0, <3>2, <4>1, <4>3 DEF SidMoves, HistMoves
      <4> QED BY <2>0, <3>1, <3>2, <4>1, <4>2, <4>3, <4>4, <4>5, GotoGoes
    <3> QED BY <3>3, <3>4
  <2> QED BY <2>1, <2>2
<1>3. CASE NewestSession(p)
  <2>0. proc[p].step = "top" /\ proc[p].op # "im"
    BY <1>0, <1>3 DEF NewestSession, At, ImSteps, TurnSteps
  <2>1. CASE To(p, "create")
    BY <2>0, <2>1, ToGoes DEF Edge, AllSteps, WebSteps, SidSteps
  <2>2. CASE ~To(p, "create")
    <3> DEFINE n == [proc[p] EXCEPT !.sid = Head(Mine(p).index), !.step = "point"]
    <3>1. Goto(p, n) /\ Mine(p).index # <<>>
      BY <1>3, <2>2 DEF NewestSession
    <3>2. /\ n \in ProcRecs /\ n.op = proc[p].op /\ n.req = proc[p].req /\ n.uid = proc[p].uid
          /\ n.step = "point" /\ n.sid \in Sids /\ n.sid \in Listed(proc[p].uid) /\ n.hist = proc[p].hist
      BY <1>0, <1>1, <3>1 DEF ProcRecs, AllSteps, WebSteps
    <3> HIDE DEF n
    <3>3. Edge(proc[p].op, proc[p].step, n.step) /\ SidMoves(p, n) /\ HistMoves(p, n)
      BY <2>0, <3>2 DEF Edge, SidMoves, HistMoves
    <3> QED BY <2>0, <3>1, <3>2, <3>3, GotoGoes
  <2> QED BY <2>1, <2>2
<1>4. CASE ListMessages(p)
  <2>0. proc[p].step = "history" /\ proc[p].sid \in Sids
    BY <1>0, <1>4 DEF ListMessages, At, Placed, SidSteps
  <2> DEFINE s == IF proc[p].op = "history" THEN "end" ELSE "stream"
             h == Suffix(Mine(p).msgs[proc[p].sid])
             n == [proc[p] EXCEPT !.hist = h, !.step = s]
  <2>1. CASE To(p, s)
    BY <2>0, <2>1, ToGoes DEF Edge, AllSteps, WebSteps, SidSteps, OwnSteps
  <2>2. CASE ~To(p, s)
    <3>1. Goto(p, n)
      BY <1>4, <2>2 DEF ListMessages
    <3>2. h \in Seq(0..Calls)
      BY <2>0, ProcFacts, SuffixFacts
    <3> HIDE DEF h
    <3>3. n.op = proc[p].op /\ n.req = proc[p].req /\ n.step = s
      BY <1>0 DEF ProcRecs
    <3>4. CASE s = "end"
      <4> HIDE DEF n, s
      <4> QED BY <2>0, <3>1, <3>3, <3>4, ToLeaves DEF WebSteps, Goes
    <3>5. CASE s = "stream"
      <4>1. /\ n \in ProcRecs /\ n.uid = proc[p].uid /\ n.sid = proc[p].sid /\ n.hist = h
            /\ n.step = "stream"
        BY <1>0, <3>2, <3>5, ZenonT(60) DEF ProcRecs, AllSteps, WebSteps
      <4> HIDE DEF n, s
      <4>2. Edge(proc[p].op, proc[p].step, n.step) /\ SidMoves(p, n) /\ HistMoves(p, n)
        BY <2>0, <4>1 DEF Edge, SidMoves, HistMoves, h
      <4>3. proc[p].op = "im" /\ n.step \in OwnSteps => proc[p].step \in OwnSteps
        BY <2>0 DEF OwnSteps
      <4> QED BY <2>0, <3>1, <3>3, <4>1, <4>2, <4>3, GotoGoes
    <3> QED BY <3>4, <3>5
  <2> QED BY <2>1, <2>2
<1>5. CASE ReadsCurrent(p) \/ Reselect(p)
  <2> DEFINE s == IF ReadsCurrent(p) THEN "del" ELSE "repoint"
             n(c) == [proc[p] EXCEPT !.cur = c, !.step = s]
  <2>0. /\ proc[p].step = IF ReadsCurrent(p) THEN "del_read" ELSE "reselect"
        /\ ReadsCurrent(p) => proc[p].sid \in Sids
        /\ proc[p].op # "im"
    BY <1>0, <1>5 DEF ReadsCurrent, Reselect, At, Placed, SidSteps, ImSteps, TurnSteps
  <2>1. PICK c \in Sids \cup {None} : Goto(p, n(c))
    BY <1>0, <1>1, <1>5 DEF ReadsCurrent, Reselect
  <2>2. /\ n(c) \in ProcRecs /\ n(c).op = proc[p].op /\ n(c).req = proc[p].req /\ n(c).uid = proc[p].uid
        /\ n(c).step = s /\ n(c).sid = proc[p].sid /\ n(c).hist = proc[p].hist
    BY <1>0, ZenonT(60) DEF ProcRecs, AllSteps, WebSteps
  <2> HIDE DEF n
  <2>3. Edge(proc[p].op, proc[p].step, n(c).step) /\ SidMoves(p, n(c)) /\ HistMoves(p, n(c))
    BY <2>0, <2>2 DEF Edge, SidMoves, HistMoves
  <2>4. n(c).step \in SidSteps => n(c).sid \in Sids
    BY <2>0, <2>2 DEF SidSteps
  <2>5. proc[p].step \notin {"slot", "reply"}
    BY <2>0
  <2> QED BY <2>0, <2>1, <2>2, <2>3, <2>4, <2>5, GotoGoes
<1> QED BY <1>2, <1>3, <1>4, <1>5

(* The steps that write the keys of the user: what they put there.         *)
LEMMA PutWrites ==
  ASSUME BaseInv, NEW p \in Procs, NEW n \in UserRecs, Written(p, n),
         store' \in {store, [store EXCEPT ![proc[p].uid] = n]}
  PROVE  Writes(p)
BY DEF Writes

(* Moving the current-session pointer writes one user's record.            *)
LEMMA PointersGo ==
  ASSUME BaseInv, NEW p \in Procs, PointAt(p) \/ Repoint(p)
  PROVE  Goes(p) /\ Writes(p)
<1>0. /\ proc[p].step = IF PointAt(p) THEN "point" ELSE "repoint"
      /\ Placed(proc[p]) /\ Mine(p) \in UserRecs /\ proc[p].cur \in Sids \cup {None}
      /\ proc[p].op # "im"
      /\ proc[p].mig # "read"
  BY ProcFacts DEF PointAt, Repoint, At, Placed, ImSteps, TurnSteps, StoreSteps
<1> DEFINE c == IF PointAt(p) THEN proc[p].sid ELSE proc[p].cur
           n == [Mine(p) EXCEPT !.current = c]
           s == IF PointAt(p) THEN "history" ELSE "end"
<1>1. To(p, s) /\ store' \in {store, [store EXCEPT ![proc[p].uid] = n]}
  BY DEF PointAt, Repoint, Put
<1>2. c \in Sids \cup {None}
  BY <1>0 DEF Placed, SidSteps
<1> HIDE DEF c
<1>3. n \in UserRecs /\ n.index = Mine(p).index /\ n.msgs = Mine(p).msgs /\ n.legacy = Mine(p).legacy
  BY <1>0, <1>2 DEF UserRecs
<1> HIDE DEF n
<1>4. Written(p, n)
  BY <1>0, <1>3 DEF Written, Listed, Mine
<1>5. Goes(p)
  <2>1. CASE s = "history"
    BY <1>0, <1>1, <2>1, ToGoes DEF Edge, AllSteps, WebSteps, SidSteps
  <2>2. CASE s = "end"
    BY <1>0, <1>1, <2>2, ToGoes DEF WebSteps
  <2> QED BY <2>1, <2>2
<1> QED BY <1>1, <1>3, <1>4, <1>5, PutWrites

(* Appending the turn writes the session the request works in.             *)
LEMMA AppendGoes ==
  ASSUME BaseInv, NEW p \in Procs, AppendMessages(p)
  PROVE  Goes(p) /\ Writes(p)
<1>0. /\ proc[p].step = "append" /\ Placed(proc[p]) /\ Mine(p) \in UserRecs
      /\ proc[p].sid \in Sids /\ proc[p].mig # "read" /\ p \in 0..Calls
  BY ProcFacts, Numbers DEF AppendMessages, At, Placed, SidSteps, StoreSteps, Procs
<1> DEFINE s == proc[p].sid
           m == Mine(p)
           x == Suffix(m.msgs[s] \o <<p>>)
           i == Touched(m.index, s)
           n == [m EXCEPT !.msgs[s] = x, !.index = i, !.current = s]
<1>1. To(p, "end") /\ store' \in {store, [store EXCEPT ![proc[p].uid] = n]}
  BY DEF AppendMessages, Put
<1>2. /\ m.index \in Seq(Sids) /\ IsInjective(m.index) /\ m.msgs \in [Sids -> Seq(0..Calls)]
      /\ m.msgs[s] \in Seq(0..Calls)
  BY <1>0 DEF UserRecs
<1>3. x \in Seq(0..Calls) /\ ToSet(x) \subseteq ToSet(m.msgs[s]) \cup {p}
  <2>1. <<p>> \in Seq(0..Calls) /\ ToSet(<<p>>) = {p}
    BY <1>0, SingleSeq
  <2>2. \A u \in Seq(0..Calls) :
          m.msgs[s] \o u \in Seq(0..Calls) /\ ToSet(m.msgs[s] \o u) = ToSet(m.msgs[s]) \cup ToSet(u)
    BY <1>2, ConcatSet
  <2>3. /\ m.msgs[s] \o <<p>> \in Seq(0..Calls)
        /\ ToSet(m.msgs[s] \o <<p>>) = ToSet(m.msgs[s]) \cup {p}
    BY <2>1, <2>2
  <2>4. \A v \in Seq(0..Calls) : Suffix(v) \in Seq(0..Calls) /\ ToSet(Suffix(v)) \subseteq ToSet(v)
    BY SuffixFacts
  <2> QED BY <2>3, <2>4
<1>4. i \in Seq(Sids) /\ IsInjective(i) /\ ToSet(i) = ToSet(m.index) \cup {s}
  BY <1>0, <1>2, TouchedFacts
<1> HIDE DEF x, i
<1>5. /\ n \in UserRecs /\ n.index = i /\ n.legacy = m.legacy
      /\ \A t \in Sids : n.msgs[t] = IF t = s THEN x ELSE m.msgs[t]
  BY <1>0, <1>2, <1>3, <1>4 DEF UserRecs
<1> HIDE DEF n
<1>6. Written(p, n)
  BY <1>0, <1>3, <1>4, <1>5 DEF Written, Listed, Mine, NewSids, NewMsgs
<1>7. Goes(p)
  BY <1>0, <1>1, ToGoes DEF WebSteps
<1> QED BY <1>1, <1>5, <1>6, <1>7, PutWrites

(* Deleting a session writes its owner's record and buries it.             *)
LEMMA DeleteGoes ==
  ASSUME BaseInv, NEW p \in Procs, DeleteSession(p)
  PROVE  Goes(p) /\ Writes(p) /\ Buries(p)
<1>0. /\ proc[p].step = "del" /\ Placed(proc[p]) /\ Mine(p) \in UserRecs
      /\ proc[p].sid \in Sids /\ proc[p].mig # "read" /\ proc[p].op # "im" /\ proc[p].uid \in Uids
  BY ProcFacts DEF DeleteSession, At, Placed, SidSteps, StoreSteps, ImSteps, TurnSteps
<1> DEFINE s == proc[p].sid
           u == proc[p].uid
           m == Mine(p)
           i == Removed(m.index, s)
           n == [m EXCEPT !.msgs[s] = <<>>, !.index = i]
<1>1. /\ To(p, "end") \/ To(p, "reselect")
      /\ store' \in {store, [store EXCEPT ![u] = n]}
  BY DEF DeleteSession, Put
<1>2. /\ m.index \in Seq(Sids) /\ IsInjective(m.index) /\ m.msgs \in [Sids -> Seq(0..Calls)]
  BY <1>0 DEF UserRecs
<1>3. i \in Seq(Sids) /\ IsInjective(i) /\ ToSet(i) = ToSet(m.index) \ {s}
  BY <1>0, <1>2, RemovedFacts
<1>4. <<>> \in Seq(0..Calls) /\ ToSet(<<>>) = {}
  BY DEF ToSet
<1> HIDE DEF i
<1>5. /\ n \in UserRecs /\ n.index = i /\ n.legacy = m.legacy
      /\ \A t \in Sids : n.msgs[t] = IF t = s THEN <<>> ELSE m.msgs[t]
  BY <1>0, <1>2, <1>3, <1>4 DEF UserRecs
<1>8. gone' = IF s \in Listed(u) /\ store'[u] = n /\ ~\E q \in Procs : InSession(q, u, s)
              THEN gone \cup {<<u, s>>} ELSE gone
  BY DEF DeleteSession, i
<1> HIDE DEF n
<1>6. Written(p, n)
  BY <1>0, <1>3, <1>4, <1>5 DEF Written, Listed, Mine
<1>7. Goes(p)
  BY <1>0, <1>1, ToGoes DEF WebSteps, AllSteps, Edge, SidSteps
<1>9. store'[u] = n => s \notin ToSet(store'[u].index)
  BY <1>3, <1>5
<1>10. Buries(p)
  BY <1>0, <1>8, <1>9 DEF Buries
<1> QED BY <1>1, <1>5, <1>6, <1>7, <1>10, PutWrites

(* Creating a session writes its owner's record and takes a new number.    *)
LEMMA CreateGoes ==
  ASSUME BaseInv, NEW p \in Procs, CreateSession(p)
  PROVE  Goes(p) /\ Writes(p) /\ Makes(p)
<1>0. /\ proc[p].step = "create" /\ Placed(proc[p]) /\ Mine(p) \in UserRecs /\ proc[p] \in ProcRecs
      /\ proc[p].mig # "read" /\ made' = made + 1 /\ proc[p].op \in AllOps
  BY ProcFacts DEF CreateSession, At, Placed, StoreSteps
<1>1. made + 1 \in Sids
  BY <1>0, CountsFit DEF MayCreate
<1> DEFINE s == made + 1
           m == Mine(p)
           i == Touched(m.index, s)
           n == [m EXCEPT !.index = i, !.current = s]
           a == AfterCreate(proc[p].op)
           r == [proc[p] EXCEPT !.sid = s, !.step = a]
<1>2. /\ Goto(p, r) \/ To(p, "end")
      /\ store' \in {store, [store EXCEPT ![proc[p].uid] = n]}
  BY DEF CreateSession
<1>3. m.index \in Seq(Sids) /\ IsInjective(m.index)
  BY <1>0 DEF UserRecs
<1> HIDE DEF s
<1>4. i \in Seq(Sids) /\ IsInjective(i) /\ ToSet(i) = ToSet(m.index) \cup {s}
  BY <1>1, <1>3, TouchedFacts DEF s
<1> HIDE DEF i
<1>5. n \in UserRecs /\ n.index = i /\ n.legacy = m.legacy /\ n.msgs = m.msgs
  BY <1>0, <1>1, <1>4 DEF UserRecs, s
<1> HIDE DEF n
<1>6. Written(p, n)
  <2>1. s \in NewSids(p)
    BY <1>0, CountsFit DEF NewSids, Sids, s
  <2> QED BY <1>0, <1>4, <1>5, <2>1 DEF Written, Listed, Mine
<1>7. Goes(p)
  <2>1. CASE To(p, "end")
    BY <1>0, <2>1, ToGoes DEF WebSteps
  <2>2. CASE Goto(p, r)
    <3>1. r.step = a /\ r.op = proc[p].op /\ r.req = proc[p].req
      BY <1>0 DEF ProcRecs
    <3>2. CASE a = "end"
      <4> HIDE DEF r, a
      <4> QED BY <1>0, <2>2, <3>1, <3>2, ToLeaves DEF WebSteps, Goes
    <3>3. CASE a # "end"
      <4>1. /\ a \in {"bind", "relist", "history"}
            /\ Edge(proc[p].op, "create", a)
        BY <3>3 DEF AfterCreate, Edge
      <4>2. r \in ProcRecs /\ r.uid = proc[p].uid /\ r.sid = s /\ r.hist = proc[p].hist
        BY <1>0, <1>1, <4>1 DEF ProcRecs, AllSteps, WebSteps, ImSteps, TurnSteps, s
      <4> HIDE DEF r, a
      <4>3. SidMoves(p, r) /\ HistMoves(p, r)
        BY <1>0, <4>2 DEF SidMoves, HistMoves, s
      <4> QED BY <1>0, <1>1, <2>2, <3>1, <4>1, <4>2, <4>3, GotoGoes DEF s, OwnSteps
    <3> QED BY <3>2, <3>3
  <2> QED BY <1>2, <2>1, <2>2
<1>8. Makes(p)
  <2>1. proc \in [Procs -> ProcRecs]
    BY DEF BaseInv, ProcInv
  <2>2. CASE Leaves(p)
    <3>1. proc'[p] = Ended(proc[p])
      BY <2>1, <2>2 DEF Leaves, Becomes
    <3>2. proc'[p].step \in {"reply", "done"}
      BY <3>1 DEF Ended, Idle
    <3> QED BY <1>0, <3>2 DEF Makes, MayCreate
  <2>3. CASE \E x \in ProcRecs : Moves(p, x)
    <3>1. PICK x \in ProcRecs : Moves(p, x)
      BY <2>3
    <3>2. proc'[p] = x /\ x.step \in {"bind", "relist", "history"}
      BY <1>0, <2>1, <3>1 DEF Moves, Becomes, Edge
    <3> QED BY <1>0, <3>2 DEF Makes, MayCreate
  <2> QED BY <1>7, <2>2, <2>3 DEF Goes
<1> QED BY <1>2, <1>5, <1>6, <1>7, <1>8, PutWrites

(* The migration's pipeline writes the legacy session and nothing else.    *)
LEMMA MigrateWrites ==
  ASSUME BaseInv, NEW p \in Procs, MigratePipe(p)
  PROVE  Writes(p)
<1>0. proc[p].mig = "read" /\ Mine(p) \in UserRecs /\ LegacySid \in Sids
  BY ProcFacts, Numbers DEF MigratePipe, LegacySid, Sids
<1> DEFINE m == Mine(p)
           x == m.msgs[LegacySid] \o <<0>>
           i == Touched(m.index, LegacySid)
           n == [m EXCEPT !.msgs[LegacySid] = x, !.index = i, !.current = LegacySid, !.legacy = FALSE]
<1>1. store' \in {store, [store EXCEPT ![proc[p].uid] = n]}
  BY DEF MigratePipe
<1>2. /\ m.index \in Seq(Sids) /\ IsInjective(m.index) /\ m.msgs \in [Sids -> Seq(0..Calls)]
      /\ m.msgs[LegacySid] \in Seq(0..Calls)
  BY <1>0 DEF UserRecs
<1>3. x \in Seq(0..Calls) /\ ToSet(x) = ToSet(m.msgs[LegacySid]) \cup {0}
  <2>1. <<0>> \in Seq(0..Calls) /\ ToSet(<<0>>) = {0}
    BY Numbers, SingleSeq
  <2>2. \A u \in Seq(0..Calls) :
          /\ m.msgs[LegacySid] \o u \in Seq(0..Calls)
          /\ ToSet(m.msgs[LegacySid] \o u) = ToSet(m.msgs[LegacySid]) \cup ToSet(u)
    BY <1>2, ConcatSet
  <2> QED BY <2>1, <2>2
<1>4. i \in Seq(Sids) /\ IsInjective(i) /\ ToSet(i) = ToSet(m.index) \cup {LegacySid}
  BY <1>0, <1>2, TouchedFacts
<1> HIDE DEF x, i
<1>5. /\ n \in UserRecs /\ n.index = i /\ n.legacy = FALSE
      /\ \A t \in Sids : n.msgs[t] = IF t = LegacySid THEN x ELSE m.msgs[t]
  BY <1>0, <1>2, <1>3, <1>4 DEF UserRecs
<1> HIDE DEF n
<1>6. Written(p, n)
  BY <1>0, <1>3, <1>4, <1>5 DEF Written, Listed, Mine, NewSids, NewMsgs
<1> QED BY <1>1, <1>5, <1>6, PutWrites

(* A message that is in hand is one of the inbound messages.               *)
LEMMA InFacts ==
  ASSUME BaseInv, NEW p \in Procs, proc[p].op = "im", proc[p].step \in ImSteps \ {"done"}
  PROVE  /\ In(p) \in Inbounds /\ In(p).user \in Users /\ In(p).chat \in Chats
         /\ proc[p].step = "mark" => In(p).event \in Events
         /\ Adapter(proc[p].req) = In(p)
<1>1. In(p) \in Inbounds /\ (proc[p].step = "mark" => In(p).event # None)
  BY ProcFacts DEF Placed, In
<1> QED BY <1>1 DEF Users, Chats, Events, In

(* Taking a slot and letting it go move the counter of slots by one.       *)
LEMMA SetStepMoves ==
  ASSUME BaseInv, NEW p \in Procs, NEW s \in AllSteps, proc' = [proc EXCEPT ![p].step = s],
         Edge(proc[p].op, proc[p].step, s), s \notin SidSteps \cup OwnSteps,
         proc[p].step \in {"slot", "reply"},
         IF s = "user" THEN proc[p].step = "slot" /\ sem < MaxConc /\ sem' = sem + 1
         ELSE proc[p].step = "reply" /\ sem' = ReleaseAgentSlot
  PROVE  Goes(p)
<1> DEFINE r == [proc[p] EXCEPT !.step = s]
<1>0. proc[p] \in ProcRecs /\ Placed(proc[p]) /\ proc \in [Procs -> ProcRecs]
  BY ProcFacts DEF BaseInv, ProcInv
<1>1. /\ r \in ProcRecs /\ r.step = s /\ r.op = proc[p].op /\ r.req = proc[p].req
      /\ r.uid = proc[p].uid /\ r.sid = proc[p].sid /\ r.hist = proc[p].hist /\ r.mig = proc[p].mig
  BY <1>0 DEF ProcRecs
<1>2. proc' = [proc EXCEPT ![p] = r]
  BY <1>0
<1>3. proc[p].mig = "no" /\ proc[p].op = "im"
  BY <1>0, ImOp DEF Placed, StoreSteps, ProcRecs
<1> HIDE DEF r
<1>4. Placed(r)
  BY <1>0, <1>1, <1>3, EdgePlaced DEF WebOps
<1>5. UidMoves(p, r) /\ SidMoves(p, r) /\ HistMoves(p, r) /\ SemMoves(p, r)
  BY <1>1 DEF UidMoves, SidMoves, HistMoves, SemMoves
<1>6. Edge(proc[p].op, proc[p].step, r.step)
  BY <1>1
<1> QED BY <1>1, <1>2, <1>4, <1>5, <1>6 DEF Moves, Goes, Becomes

(* What the policy decides on is a slot, a hint, or nothing to do.         *)
LEMMA PolicySteps ==
  ASSUME NEW in
  PROVE  AfterPolicy(in) \in {"slot", "hint", "done"}
BY DEF AfterPolicy

(* Where a change of place leads, and that the session stays.              *)
LEMMA ToStep ==
  ASSUME BaseInv, NEW p \in Procs, NEW s \in AllSteps, To(p, s)
  PROVE  proc'[p].step = s /\ proc'[p].sid = proc[p].sid
<1>1. proc[p] \in ProcRecs /\ proc \in [Procs -> ProcRecs]
  BY DEF BaseInv, ProcInv
<1>2. s # "end"
  BY DEF AllSteps, WebSteps, ImSteps, TurnSteps
<1> DEFINE n == [proc[p] EXCEPT !.step = s]
           r == [n EXCEPT !.mig = "no"]
<1>3. n \in ProcRecs /\ n.step = s /\ n.sid = proc[p].sid
  BY <1>1 DEF ProcRecs
<1>4. r.step = s /\ r.sid = proc[p].sid
  BY <1>3 DEF ProcRecs
<1>5. proc' = [proc EXCEPT ![p] = r]
  BY <1>2, <1>3 DEF To, Goto
<1> QED BY <1>1, <1>4, <1>5

(* SETNX of the event lets at most one delivery pass it.                   *)
LEMMA MarkGoes ==
  ASSUME BaseInv, NEW p \in Procs, MarkEventProcessed(p)
  PROVE  Goes(p) /\ HubKeys(p)
<1>0. proc[p].step = "mark" /\ proc[p].op = "im"
  BY ImOp DEF MarkEventProcessed, At
<1> DEFINE t == AfterPolicy(In(p))
           e == In(p).event
<1>1. t \in {"slot", "hint", "done"}
  BY PolicySteps
<1>2. PICK s \in {"slot", "hint", "done"} :
        /\ To(p, s)
        /\ \/ s = "done" /\ UNCHANGED <<seen, unsure>>
           \/ e \notin seen /\ seen' = seen \cup {e} /\ UNCHANGED unsure
           \/ seen' \in {seen, seen \cup {e}} /\ unsure' = unsure \cup {e}
  BY <1>1 DEF MarkEventProcessed, Marked
<1>3. Goes(p)
  BY <1>0, <1>2, ToGoes DEF Edge, AllSteps, ImSteps, SidSteps, OwnSteps
<1>4. proc'[p].step = s
  BY <1>2, ToStep DEF AllSteps, ImSteps
<1>5. Marks(p)
  BY <1>0, <1>2, <1>4 DEF Marks
<1> QED BY <1>3, <1>5 DEF HubKeys, Answers, MarkEventProcessed

(* A slot is taken only below the limit; the reply lets it go.             *)
LEMMA SlotGoes ==
  ASSUME BaseInv, NEW p \in Procs, SlotOrBusy(p) \/ Reply(p)
  PROVE  Goes(p) /\ HubKeys(p)
<1>0. proc[p].step = IF SlotOrBusy(p) THEN "slot" ELSE "reply"
  BY DEF SlotOrBusy, Reply, At
<1>1. Goes(p)
  <2>1. CASE To(p, "send") /\ SlotOrBusy(p)
    BY <1>0, <2>1, ToGoes DEF Edge, AllSteps, ImSteps, SidSteps, OwnSteps
  <2>2. CASE ~(To(p, "send") /\ SlotOrBusy(p))
    <3> DEFINE s == IF SlotOrBusy(p) THEN "user" ELSE "send"
    <3>1. /\ proc' = [proc EXCEPT ![p].step = s]
          /\ IF s = "user" THEN proc[p].step = "slot" /\ sem < MaxConc /\ sem' = sem + 1
             ELSE proc[p].step = "reply" /\ sem' = ReleaseAgentSlot
      BY <1>0, <2>2 DEF SlotOrBusy, Reply, TryAcquireAgentSlot
    <3>2. /\ s \in AllSteps /\ Edge(proc[p].op, proc[p].step, s) /\ s \notin SidSteps \cup OwnSteps
          /\ proc[p].step \in {"slot", "reply"}
      BY <1>0 DEF Edge, AllSteps, ImSteps, TurnSteps, SidSteps, OwnSteps
    <3> QED BY <3>1, <3>2, SetStepMoves
  <2> QED BY <2>1, <2>2
<1>2. HubKeys(p)
  BY <1>0 DEF HubKeys, Marks, Answers, SlotOrBusy, Reply, hvars
<1> QED BY <1>1, <1>2

(* Looking the user up yields the recorded id or sends for a new one.      *)
LEMMA GetUserGoes ==
  ASSUME BaseInv, NEW p \in Procs, GetUser(p)
  PROVE  Goes(p) /\ HubKeys(p)
<1>0. /\ proc[p].step = "user" /\ proc[p].op = "im" /\ proc[p] \in ProcRecs /\ In(p).user \in Users
      /\ ids \in [Users -> (Uids \ {WebUser}) \cup {None}]
  BY ImOp, InFacts, ProcFacts DEF GetUser, At, ImSteps, TurnSteps, BaseInv, HubTyped
<1>1. HubKeys(p)
  BY <1>0 DEF HubKeys, Marks, Answers, GetUser, hvars
<1>2. CASE To(p, "end")
  BY <1>0, <1>1, <1>2, ToGoes DEF TurnSteps
<1>3. CASE To(p, "incr")
  BY <1>0, <1>1, <1>3, ToGoes DEF TurnSteps, Edge, AllSteps, ImSteps, SidSteps, OwnSteps
<1>4. CASE ~To(p, "end") /\ ~To(p, "incr")
  <2> DEFINE u == ids[In(p).user]
             n == [proc[p] EXCEPT !.uid = u, !.step = "chat"]
  <2>1. Goto(p, n) /\ u # None
    BY <1>4 DEF GetUser
  <2>2. u \in Uids \ {WebUser}
    BY <1>0, <2>1
  <2> HIDE DEF u
  <2>3. /\ n \in ProcRecs /\ n.op = proc[p].op /\ n.req = proc[p].req /\ n.step = "chat"
        /\ n.uid = u /\ n.sid = proc[p].sid /\ n.hist = proc[p].hist
    BY <1>0, <2>2 DEF ProcRecs, AllSteps, ImSteps, TurnSteps
  <2> HIDE DEF n
  <2>4. UidMoves(p, n) /\ SidMoves(p, n) /\ HistMoves(p, n)
    BY <1>0, <2>3 DEF UidMoves, SidMoves, HistMoves, u
  <2>5. Edge(proc[p].op, proc[p].step, n.step)
    BY <1>0, <2>3 DEF Edge
  <2> QED BY <1>0, <1>1, <2>1, <2>2, <2>3, <2>4, <2>5, GotoMoves DEF Goes, SidSteps
<1> QED BY <1>2, <1>3, <1>4

(* INCR hands out a user id nobody had.                                    *)
LEMMA IncrGoes ==
  ASSUME BaseInv, NEW p \in Procs, IncrUserSeq(p)
  PROVE  Goes(p) /\ HubKeys(p)
<1>0. /\ proc[p].step = "incr" /\ proc[p].op = "im" /\ proc[p] \in ProcRecs
      /\ NewUid \in Uids \ {WebUser} /\ proc \in [Procs -> ProcRecs]
  BY ImOp, ProcFacts, CountsFit DEF IncrUserSeq, At, MayIncr, BaseInv, ProcInv
<1>1. Goes(p) /\ ~MayIncr(proc'[p])
  <2>1. CASE To(p, "end")
    <3>1. Leaves(p)
      BY <1>0, <2>1, ToEnd DEF TurnSteps
    <3>2. proc'[p] = Ended(proc[p])
      BY <1>0, <3>1 DEF Leaves, Becomes
    <3>3. proc'[p].step \in {"reply", "done"}
      BY <3>2 DEF Ended, Idle
    <3> QED BY <3>1, <3>3 DEF Goes, MayIncr
  <2>2. CASE ~To(p, "end")
    <3> DEFINE n == [proc[p] EXCEPT !.uid = NewUid, !.step = "set_user"]
    <3>1. Goto(p, n) /\ seq' = seq + 1
      BY <2>2 DEF IncrUserSeq
    <3>2. /\ n \in ProcRecs /\ n.op = proc[p].op /\ n.req = proc[p].req /\ n.step = "set_user"
          /\ n.uid = NewUid /\ n.sid = proc[p].sid /\ n.hist = proc[p].hist
      BY <1>0 DEF ProcRecs, AllSteps, ImSteps, TurnSteps
    <3> HIDE DEF n
    <3>4. UidMoves(p, n) /\ SidMoves(p, n) /\ HistMoves(p, n)
      BY <1>0, <3>1, <3>2 DEF UidMoves, SidMoves, HistMoves
    <3>5. Edge(proc[p].op, proc[p].step, n.step)
      BY <1>0, <3>2 DEF Edge
    <3>6. PICK r \in ProcRecs : Moves(p, r) /\ r.step = n.step
      BY <1>0, <3>1, <3>2, <3>4, <3>5, GotoMoves DEF SidSteps
    <3>7. proc'[p] = r
      BY <1>0, <3>6 DEF Moves, Becomes
    <3> QED BY <3>2, <3>6, <3>7 DEF Goes, MayIncr
  <2> QED BY <2>1, <2>2
<1>2. HubKeys(p)
  BY <1>0, <1>1 DEF HubKeys, Marks, Answers, IncrUserSeq
<1> QED BY <1>1, <1>2

(* Recording the user's id writes the id this request drew or read.        *)
LEMMA SetUserGoes ==
  ASSUME BaseInv, NEW p \in Procs, SetUser(p)
  PROVE  Goes(p) /\ HubKeys(p)
<1>0. proc[p].step = "set_user" /\ proc[p].op = "im"
  BY ImOp DEF SetUser, At
<1>1. HubKeys(p)
  BY <1>0 DEF HubKeys, Marks, Answers, SetUser
<1>2. PICK s \in {"chat", "end"} : To(p, s)
  BY DEF SetUser
<1>3. Goes(p)
  BY <1>0, <1>2, ToGoes DEF TurnSteps, Edge, AllSteps, ImSteps, SidSteps, OwnSteps
<1> QED BY <1>1, <1>3

(* Looking the chat up yields the recorded session or goes to make one.    *)
LEMMA GetChatGoes ==
  ASSUME BaseInv, NEW p \in Procs, GetChat(p)
  PROVE  Goes(p) /\ HubKeys(p)
<1>0. /\ proc[p].step = "chat" /\ proc[p].op = "im" /\ proc[p] \in ProcRecs /\ In(p).chat \in Chats
      /\ chats \in [Chats -> Sids \cup {None}]
  BY ImOp, InFacts, ProcFacts DEF GetChat, At, ImSteps, TurnSteps, BaseInv, HubTyped
<1>1. HubKeys(p)
  BY <1>0 DEF HubKeys, Marks, Answers, GetChat, hvars
<1>2. CASE To(p, "end") \/ To(p, "create")
  BY <1>0, <1>1, <1>2, ToGoes DEF TurnSteps, Edge, AllSteps, ImSteps, SidSteps, OwnSteps
<1>4. CASE ~To(p, "end") /\ ~To(p, "create")
  <2> DEFINE s == chats[In(p).chat]
             n == [proc[p] EXCEPT !.sid = s, !.step = "bound"]
  <2>1. Goto(p, n) /\ s # None
    BY <1>4 DEF GetChat
  <2>2. s \in Sids
    BY <1>0, <2>1
  <2> HIDE DEF s
  <2>3. /\ n \in ProcRecs /\ n.op = proc[p].op /\ n.req = proc[p].req /\ n.step = "bound"
        /\ n.uid = proc[p].uid /\ n.sid = s /\ n.hist = proc[p].hist
    BY <1>0, <2>2 DEF ProcRecs, AllSteps, ImSteps, TurnSteps
  <2> HIDE DEF n
  <2>4. SidMoves(p, n) /\ HistMoves(p, n)
    BY <1>0, <2>3 DEF SidMoves, HistMoves
  <2>5. Edge(proc[p].op, proc[p].step, n.step)
    BY <1>0, <2>3 DEF Edge
  <2> QED BY <1>0, <1>1, <2>1, <2>2, <2>3, <2>4, <2>5, GotoGoes DEF OwnSteps
<1> QED BY <1>2, <1>4

(* Binding the chat and sending the answer touch no other key.             *)
LEMMA BindAndSendGo ==
  ASSUME BaseInv, NEW p \in Procs, BindChat(p) \/ Send(p)
  PROVE  Goes(p) /\ HubKeys(p)
<1>0. /\ proc[p].op = "im" /\ proc[p].step \in {"bind", "send", "hint"}
      /\ BindChat(p) => proc[p].step = "bind"
      /\ ~BindChat(p) => proc[p].step # "bind"
  BY ImOp DEF BindChat, Send, At
<1>1. HubKeys(p)
  BY <1>0 DEF HubKeys, Marks, Answers, BindChat, Send
<1>2. To(p, IF BindChat(p) THEN "history" ELSE "done")
  BY DEF BindChat, Send
<1>3. Goes(p)
  BY <1>0, <1>2, ToGoes DEF TurnSteps, Edge, AllSteps, WebSteps, ImSteps, SidSteps, OwnSteps
<1> QED BY <1>1, <1>3

(* The record of a request that has not arrived.                           *)
LEMMA IdleFacts ==
  /\ Idle \in [op : AllOps, uid : Uids, sid : Sids \cup {None}, step : AllSteps,
               cur : Sids \cup {None}, mig : {"no", "read", "done"}, canceled : BOOLEAN,
               hist : Seq(0..Calls), req : AllRequests \cup {None}]
  /\ Idle.op = "none" /\ Idle.uid = WebUser /\ Idle.step = "idle" /\ Idle.mig = "no" /\ Idle.hist = <<>>
  /\ WebUser \in Uids
<1>1. WebUser \in Uids
  BY Numbers DEF WebUser, Uids
<1>2. <<>> \in Seq(0..Calls)
  OBVIOUS
<1> QED BY <1>1, <1>2 DEF Idle, AllOps, AllSteps

(* An arriving web request has the web user and the place of its route.    *)
LEMMA RequestArrives ==
  ASSUME BaseInv, NEW p \in Procs, NEW op \in WebOps \ {"web"}, NEW s \in 0..made \cup {None},
         WebRequest(p, op, s), sem' = sem + SlotsOf(op), sem' <= MaxConc
  PROVE  \E r \in ProcRecs : Arrives(p, r)
<1> DEFINE t == FirstStep(op, s)
           r == [Idle EXCEPT !.op = op, !.sid = s, !.step = t]
<1>1. made \in Sids
  BY CountsFit
<1>2. s \in Sids \cup {None}
  BY <1>1, Numbers DEF Sids
<1>3. /\ t \in {"sessions", "create", "known", "current", "del_read"}
      /\ t \in {"known", "del_read"} => s # None
      /\ t = "sessions" => op = "list"
  BY DEF FirstStep, WebOps, WebRequest
<1> HIDE DEF t
<1>4. /\ r \in ProcRecs /\ r.op = op /\ r.sid = s /\ r.step = t /\ r.uid = WebUser
      /\ r.mig = "no" /\ r.hist = <<>>
  BY <1>2, <1>3, IdleFacts, ZenonT(60) DEF ProcRecs, AllOps, AllSteps, WebSteps
<1>5. proc' = [proc EXCEPT ![p] = r] /\ proc[p].step = "idle"
  BY DEF WebRequest, CanBegin, t
<1> HIDE DEF r
<1>6. Placed(r)
  BY <1>2, <1>3, <1>4 DEF Placed, WebOps, WebSteps, SidSteps
<1> QED BY <1>3, <1>4, <1>5, <1>6 DEF Arrives, Becomes

(* A request the gateway refuses arrives and is done.                      *)
LEMMA RefusedArrives ==
  ASSUME BaseInv, NEW p \in Procs, ChatRefused(p)
  PROVE  \E r \in ProcRecs : Arrives(p, r)
<1> DEFINE r == [Idle EXCEPT !.op = "web", !.step = "done"]
<1>1. /\ r \in ProcRecs /\ r.op = "web" /\ r.step = "done" /\ r.uid = WebUser
      /\ r.mig = "no" /\ r.hist = <<>>
  BY IdleFacts DEF ProcRecs, AllOps, WebOps, AllSteps, ImSteps
<1>2. proc' = [proc EXCEPT ![p] = r] /\ proc[p].step = "idle" /\ sem' = sem
  BY DEF ChatRefused, CanBegin
<1> HIDE DEF r
<1>3. Placed(r)
  BY <1>1 DEF Placed, WebOps, SidSteps, OwnSteps
<1> QED BY <1>1, <1>2, <1>3 DEF Arrives, Becomes

(* An inbound message arrives at the place its adapter decides.            *)
LEMMA WebhookArrives ==
  ASSUME BaseInv, NEW p \in Procs, NEW q \in Requests[p], Webhook(p, q)
  PROVE  \E r \in ProcRecs : Arrives(p, r)
<1> DEFINE in == Adapter(q)
           t == IF in = NoInbound THEN "done" ELSE IF in.event = None THEN AfterPolicy(in) ELSE "mark"
           r == [Idle EXCEPT !.op = "im", !.req = q, !.step = t]
<1>1. /\ t \in {"slot", "hint", "done", "mark"}
      /\ t # "done" => in # NoInbound
      /\ t \in {"slot", "hint"} => in.event = None
      /\ t = "mark" => in.event # None
  BY PolicySteps
<1>2. q \in AllRequests
  BY DEF AllRequests
<1>3. t # "done" => in \in Inbounds
  BY <1>1 DEF Inbounds
<1>4. proc' = [proc EXCEPT ![p] = r] /\ proc[p].step = "idle" /\ sem' = sem
  BY DEF Webhook, CanBegin
<1> HIDE DEF t
<1>5. /\ r \in ProcRecs /\ r.op = "im" /\ r.step = t /\ r.uid = WebUser /\ r.req = q
      /\ r.mig = "no" /\ r.hist = <<>>
  BY <1>1, <1>2, IdleFacts DEF ProcRecs, AllOps, AllSteps, ImSteps
<1> HIDE DEF r
<1>6. Placed(r)
  BY <1>1, <1>3, <1>5 DEF Placed, WebOps, ImSteps, SidSteps, OwnSteps
<1> QED BY <1>1, <1>4, <1>5, <1>6 DEF Arrives, Becomes

(* A deadline marks the call cancelled and leaves it where it was.         *)
LEMMA DeadlineLingers ==
  ASSUME BaseInv, NEW p \in Procs, Deadline(p)
  PROVE  /\ \E r \in ProcRecs : Lingers(p, r)
         /\ proc[p].step # "mark"
<1> DEFINE r == [proc[p] EXCEPT !.canceled = TRUE]
<1>0. proc[p] \in ProcRecs /\ Placed(proc[p]) /\ proc \in [Procs -> ProcRecs]
  BY ProcFacts DEF BaseInv, ProcInv
<1>1. /\ r \in ProcRecs /\ r.op = proc[p].op /\ r.step = proc[p].step /\ r.uid = proc[p].uid
      /\ r.req = proc[p].req /\ r.sid = proc[p].sid /\ r.mig = proc[p].mig /\ r.hist = proc[p].hist
      /\ r.canceled
  BY <1>0 DEF ProcRecs
<1>2. proc' = [proc EXCEPT ![p] = r] /\ sem' = sem /\ ~proc[p].canceled
  BY <1>0 DEF Deadline
<1> HIDE DEF r
<1>3. Placed(r)
  BY <1>0, <1>1 DEF Placed
<1>4. proc[p].step # "mark"
  BY <1>0, ImOp DEF Deadline, Held
<1> QED BY <1>0, <1>1, <1>2, <1>3, <1>4 DEF Lingers, Becomes

(* What any step is: one of a process, or an index that expires.           *)
Steps(p) ==
  /\ Goes(p) \/ \E r \in ProcRecs : Arrives(p, r) \/ Lingers(p, r)
  /\ Writes(p) /\ Keeps(p) /\ HubKeys(p)

(* Every step of the session store is one of the kinds.                    *)
LEMMA ChatStepKind ==
  ASSUME BaseInv, NEW p \in Procs, ChatStep(p), UNCHANGED hvars
  PROVE  Steps(p)
<1>0. BaseInv => misread \in BOOLEAN
  BY DEF BaseInv, RestTyped
<1>1. proc[p].step # "mark" => HubKeys(p)
  BY DEF HubKeys, Marks, Answers, hvars
<1>2. CASE MigrateReads(p) \/ MigratePipe(p)
  <2>1. proc[p].step # "mark"
    BY <1>2, ProcFacts DEF MigrateReads, MigratePipe, Placed, StoreSteps
  <2>2. Writes(p)
    BY <1>2, MigrateWrites DEF MigrateReads, Writes
  <2>3. Keeps(p)
    BY <1>0, <1>2 DEF Keeps, Makes, Buries, MigrateReads, MigratePipe, Rest
  <2> QED BY <1>1, <1>2, <2>1, <2>2, <2>3, MigrateKind DEF Steps
<1>3. ASSUME ReadOnly
      PROVE  Writes(p) /\ Keeps(p)
  BY <1>0, <1>3 DEF Writes, Keeps, Makes, Buries, ReadOnly, Rest
<1>4. CASE SessionExists(p) \/ SetCurrentSession(p) \/ CountSessions(p) \/ ListSessions(p)
  <2>1. ReadOnly /\ proc[p].step # "mark"
    BY <1>4 DEF SessionExists, SetCurrentSession, CountSessions, ListSessions, At
  <2> QED BY <1>1, <1>3, <1>4, <2>1, ReadersGo DEF Steps
<1>5. CASE GetCurrentSessionID(p) \/ NewestSession(p) \/ ListMessages(p) \/ ReadsCurrent(p) \/ Reselect(p)
  <2>1. ReadOnly /\ proc[p].step # "mark"
    BY <1>5 DEF GetCurrentSessionID, NewestSession, ListMessages, ReadsCurrent, Reselect, At
  <2> QED BY <1>1, <1>3, <1>5, <2>1, PickersGo DEF Steps
<1>6. CASE PointAt(p) \/ Repoint(p)
  <2>1. Keeps(p) /\ proc[p].step # "mark"
    BY <1>0, <1>6 DEF PointAt, Repoint, At, Keeps, Makes, Buries, Rest
  <2> QED BY <1>1, <1>6, <2>1, PointersGo DEF Steps
<1>7. CASE AppendMessages(p)
  <2>1. Keeps(p) /\ proc[p].step # "mark"
    BY <1>0, <1>7 DEF AppendMessages, At, Keeps, Makes, Buries, Rest
  <2> QED BY <1>1, <1>7, <2>1, AppendGoes DEF Steps
<1>8. CASE DeleteSession(p)
  <2>1. made' = made /\ expiries' = expiries /\ misread' = misread /\ proc[p].step # "mark"
    BY <1>8 DEF DeleteSession, At
  <2>2. Keeps(p)
    BY <1>0, <1>8, <2>1, DeleteGoes DEF Keeps, Makes
  <2> QED BY <1>1, <1>8, <2>1, <2>2, DeleteGoes DEF Steps
<1>9. CASE CreateSession(p)
  <2>1. gone' = gone /\ expiries' = expiries /\ misread' = misread /\ proc[p].step # "mark"
    BY <1>9 DEF CreateSession, At, Rest
  <2>2. Keeps(p)
    BY <1>0, <1>9, <2>1, CreateGoes DEF Keeps, Buries
  <2> QED BY <1>1, <1>9, <2>1, <2>2, CreateGoes DEF Steps
<1> QED BY <1>2, <1>4, <1>5, <1>6, <1>7, <1>8, <1>9 DEF ChatStep

(* Every step of the hub is one of the kinds.                              *)
LEMMA HubStepKind ==
  ASSUME BaseInv, NEW p \in Procs, HubStep(p)
  PROVE  Steps(p)
<1>1. Writes(p) /\ Keeps(p)
  <2>1. store' = store /\ made' = made /\ gone' = gone /\ expiries' = expiries /\ misread' = misread
    BY DEF HubStep, MarkEventProcessed, SlotOrBusy, GetUser, IncrUserSeq, SetUser, GetChat, BindChat,
           Reply, Send, ReadOnly, Rest
  <2> QED BY <2>1 DEF Writes, Keeps, Makes, Buries, BaseInv, RestTyped
<1>2. Goes(p) /\ HubKeys(p)
  BY MarkGoes, SlotGoes, GetUserGoes, IncrGoes, SetUserGoes, GetChatGoes, BindAndSendGo DEF HubStep
<1> QED BY <1>1, <1>2 DEF Steps

(* A step that writes neither the store nor the hub's keys.                *)
LEMMA IdleKind ==
  ASSUME BaseInv, NEW p \in Procs,
         UNCHANGED <<store, made, gone, expiries, hvars>>, misread' \in BOOLEAN,
         proc[p].step # "mark"
  PROVE  Writes(p) /\ Keeps(p) /\ HubKeys(p)
BY DEF Writes, Keeps, Makes, Buries, HubKeys, Marks, Answers, hvars

(* Every arrival at the gateway is one of the kinds.                       *)
LEMMA ArrivalKind ==
  ASSUME BaseInv, NEW p \in Procs,
         \/ \E s \in 0..made \cup {None} :
              \/ ChatProxy(p, s) \/ HistoryProxy(p, s) \/ ClearChatHistory(p, s)
              \/ DeleteAgentSession(p, s)
         \/ ChatRefused(p) \/ SessionsList(p) \/ CreateAgentSession(p),
         UNCHANGED hvars
  PROVE  Steps(p) /\ \E r \in ProcRecs : Arrives(p, r)
<1>0. sem \in Int /\ MaxConc \in Int /\ sem <= MaxConc /\ None \in 0..made \cup {None}
  <2>1. Holders \in SUBSET Procs
    BY DEF Holders
  <2> QED BY <2>1, ProcsFinite, Numbers DEF BaseInv, Slots
<1>1. ASSUME NEW op \in WebOps \ {"web"}, NEW s \in 0..made \cup {None},
             WebRequest(p, op, s), IF op = "chat" THEN TryAcquireAgentSlot ELSE UNCHANGED sem
      PROVE  Steps(p) /\ \E r \in ProcRecs : Arrives(p, r)
  <2>1. sem' = sem + SlotsOf(op) /\ sem' <= MaxConc
    BY <1>0, <1>1 DEF SlotsOf, TryAcquireAgentSlot
  <2>2. /\ UNCHANGED <<store, made, gone, expiries, hvars>> /\ misread' = misread
        /\ proc[p].step # "mark"
    BY <1>1 DEF WebRequest, CanBegin, Rest
  <2> QED BY <1>1, <2>1, <2>2, RequestArrives, IdleKind DEF Steps, BaseInv, RestTyped
<1>2. CASE ChatRefused(p)
  <2>1. /\ UNCHANGED <<store, made, gone, expiries, hvars>> /\ misread' = misread
        /\ proc[p].step # "mark"
    BY <1>2 DEF ChatRefused, CanBegin, Rest
  <2> QED BY <1>2, <2>1, RefusedArrives, IdleKind DEF Steps, BaseInv, RestTyped
<1>3. CASE SessionsList(p) \/ CreateAgentSession(p)
  BY <1>0, <1>1, <1>3 DEF SessionsList, CreateAgentSession, WebOps
<1>4. ASSUME NEW s \in 0..made \cup {None},
             \/ ChatProxy(p, s) \/ HistoryProxy(p, s) \/ ClearChatHistory(p, s)
             \/ DeleteAgentSession(p, s)
      PROVE  Steps(p) /\ \E r \in ProcRecs : Arrives(p, r)
  BY <1>1, <1>4 DEF ChatProxy, HistoryProxy, ClearChatHistory, DeleteAgentSession, WebOps
<1> QED BY <1>2, <1>3, <1>4

(* So is every outcome of the agent's stream.                              *)
LEMMA TurnKind ==
  ASSUME BaseInv, NEW p \in Procs, AgentFails(p) \/ AgentStreams(p), UNCHANGED hvars
  PROVE  Steps(p)
<1>1. misread' \in BOOLEAN /\ UNCHANGED <<store, made, gone, expiries>> /\ proc[p].step # "mark"
  BY DEF AgentFails, AgentStreams, At, ReadOnly, Rest, BaseInv, RestTyped
<1> QED BY <1>1, ReadersGo, IdleKind DEF Steps

Expired(u) == /\ expiries < Expiries /\ expiries' = expiries + 1
              /\ store' = [store EXCEPT ![u].index = <<>>,
                                        ![u].msgs = [s \in Sids |-> IF s = LegacySid THEN @[s] ELSE <<>>]]
              /\ UNCHANGED <<made, sem, proc, misread, gone, hvars>>

(* A request comes to work in a session that it has found in the index, or *)
(* that it has made.                                                       *)
Joined == {"switch", "point", "history", "stream", "append", "bind"}
Joins(p) ==
  proc'[p].step \in Joined /\ proc[p].step \notin Joined =>
    \/ proc'[p].sid \in Listed(proc[p].uid)
    \/ proc[p].step = "create" /\ proc'[p].sid = made + 1 /\ made' = made + 1

(* A call that ends has its reply to send, or is done.                     *)
LEMMA EndStep ==
  ASSUME BaseInv, NEW p \in Procs, NEW n, Goto(p, n), n.step = "end"
  PROVE  proc'[p].step \in {"reply", "done"}
<1>1. proc' = [proc EXCEPT ![p] = Ended(n)] /\ proc \in [Procs -> ProcRecs]
  BY DEF Goto, BaseInv, ProcInv
<1>2. Ended(n).step \in {"reply", "done"}
  BY DEF Ended, Idle
<1> QED BY <1>1, <1>2

(* Goto leads to the place and the session of the record it is given.      *)
LEMMA GotoStep ==
  ASSUME BaseInv, NEW p \in Procs, NEW n \in ProcRecs, Goto(p, n)
  PROVE  proc'[p].step = n.step /\ proc'[p].sid = n.sid
<1>1. proc' = [proc EXCEPT ![p] = [n EXCEPT !.mig = "no"]] /\ proc \in [Procs -> ProcRecs]
  BY DEF Goto, BaseInv, ProcInv, ProcRecs, AllSteps, WebSteps, ImSteps, TurnSteps
<1>2. [n EXCEPT !.mig = "no"].step = n.step /\ [n EXCEPT !.mig = "no"].sid = n.sid
  BY DEF ProcRecs
<1> QED BY <1>1, <1>2

(* A session is joined after it was found in the index or created.         *)
LEMMA SearchersJoin ==
  ASSUME BaseInv, NEW p \in Procs, SessionExists(p) \/ NewestSession(p) \/ CreateSession(p)
  PROVE  Joins(p)
<1>0. proc[p] \in ProcRecs /\ Placed(proc[p]) /\ Mine(p).index \in Seq(Sids)
  BY ProcFacts
<1>1. ASSUME To(p, "end")
      PROVE  Joins(p)
  <2> DEFINE n == [proc[p] EXCEPT !.step = "end"]
  <2>1. n.step = "end" /\ Goto(p, n)
    BY <1>0, <1>1 DEF ProcRecs, To
  <2> HIDE DEF n
  <2>2. proc'[p].step \in {"reply", "done"}
    BY <2>1, EndStep
  <2> QED BY <2>2 DEF Joins, Joined
<1>2. CASE SessionExists(p)
  <2>1. PICK found \in Exists(p) : SessionExists(p)!(found)
    BY <1>2 DEF SessionExists
  <2>2. found => proc[p].sid \in Listed(proc[p].uid)
    BY <2>1 DEF Exists
  <2>3. PICK s \in {"end", "del_read", "switch", "history", "card", "create"} :
          To(p, s) /\ (s \in Joined => found)
    BY <2>1 DEF Joined
  <2>4. CASE s = "end"
    BY <1>1, <2>3, <2>4
  <2>5. CASE s # "end"
    <3>1. proc'[p].step = s /\ proc'[p].sid = proc[p].sid
      BY <2>3, <2>5, ToStep DEF AllSteps, WebSteps
    <3> QED BY <2>2, <2>3, <3>1 DEF Joins
  <2> QED BY <2>4, <2>5
<1>3. CASE NewestSession(p)
  <2>1. CASE To(p, "create")
    <3>1. proc'[p].step = "create"
      BY <2>1, ToStep DEF AllSteps, WebSteps
    <3> QED BY <3>1 DEF Joins, Joined
  <2>2. CASE ~To(p, "create")
    <3> DEFINE h == Head(Mine(p).index)
               n == [proc[p] EXCEPT !.sid = h, !.step = "point"]
    <3>1. Goto(p, n) /\ Mine(p).index # <<>>
      BY <1>3, <2>2 DEF NewestSession
    <3>2. h \in Sids /\ h \in Listed(proc[p].uid)
      <4>1. 1 \in 1..Len(Mine(p).index) /\ h = Mine(p).index[1]
        BY <1>0, <3>1, EmptySeq, HeadTailProperties
      <4> QED BY <1>0, <4>1, ElementOfSeq, LenProperties DEF Listed, ToSet, Mine
    <3> HIDE DEF h
    <3>3. n \in ProcRecs /\ n.sid = h
      BY <1>0, <3>2 DEF ProcRecs, AllSteps, WebSteps
    <3> HIDE DEF n
    <3>4. proc'[p].sid = h
      BY <3>1, <3>3, GotoStep
    <3> QED BY <3>2, <3>4 DEF Joins
  <2> QED BY <2>1, <2>2
<1>4. CASE CreateSession(p)
  <2>0. proc[p].step = "create" /\ made' = made + 1 /\ made + 1 \in Sids
    BY <1>4, CountsFit DEF CreateSession, At, MayCreate
  <2> DEFINE a == AfterCreate(proc[p].op)
             n == [proc[p] EXCEPT !.sid = made + 1, !.step = a]
  <2>1. CASE To(p, "end")
    BY <1>1, <2>1
  <2>2. CASE ~To(p, "end")
    <3>1. Goto(p, n)
      BY <1>4, <2>2 DEF CreateSession
    <3>2. a \in {"bind", "relist", "end", "history"}
      BY DEF AfterCreate
    <3> HIDE DEF a
    <3>3. n.step = a
      BY <1>0 DEF ProcRecs
    <3>4. CASE a = "end"
      <4> HIDE DEF n
      <4>1. proc'[p].step \in {"reply", "done"}
        BY <3>1, <3>3, <3>4, EndStep
      <4> QED BY <4>1 DEF Joins, Joined
    <3>5. CASE a # "end"
      <4>1. n \in ProcRecs /\ n.sid = made + 1
        BY <1>0, <2>0, <3>2, <3>5 DEF ProcRecs, AllSteps, WebSteps, ImSteps, TurnSteps
      <4> HIDE DEF n
      <4>2. proc'[p].sid = made + 1
        BY <3>1, <4>1, GotoStep
      <4> QED BY <2>0, <4>2 DEF Joins
    <3> QED BY <3>4, <3>5
  <2> QED BY <2>1, <2>2
<1> QED BY <1>2, <1>3, <1>4

(* No other step joins a session.                                          *)
LEMMA OthersJoin ==
  ASSUME BaseInv, NEW p \in Procs,
         \/ Goes(p) /\ proc[p].step \notin {"known", "exists", "bound", "top", "create"}
         \/ \E r \in ProcRecs : Arrives(p, r) \/ Lingers(p, r)
  PROVE  Joins(p)
<1>1. proc \in [Procs -> ProcRecs]
  BY DEF BaseInv, ProcInv
<1>2. CASE Leaves(p)
  <2>1. proc'[p] = Ended(proc[p])
    BY <1>1, <1>2 DEF Leaves, Becomes
  <2>2. proc'[p].step \in {"reply", "done"}
    BY <2>1 DEF Ended, Idle
  <2> QED BY <2>2 DEF Joins, Joined
<1>3. ASSUME NEW r \in ProcRecs, Moves(p, r), proc[p].step \notin {"known", "exists", "bound", "top", "create"}
      PROVE  Joins(p)
  <2>1. proc'[p] = r /\ Edge(proc[p].op, proc[p].step, r.step)
    BY <1>1, <1>3 DEF Moves, Becomes
  <2> QED BY <1>3, <2>1 DEF Joins, Joined, Edge
<1>4. ASSUME NEW r \in ProcRecs, Arrives(p, r) \/ Lingers(p, r)
      PROVE  Joins(p)
  <2>1. proc'[p] = r
    BY <1>1, <1>4 DEF Arrives, Lingers, Becomes
  <2>2. r.step \in Joined => proc[p].step \in Joined
    BY <1>4 DEF Arrives, Lingers, Joined, WebOps, Placed
  <2> QED BY <2>1, <2>2 DEF Joins
<1> QED BY <1>2, <1>3, <1>4 DEF Goes

(* So every step of the session store joins only such a session.           *)
LEMMA ChatJoins ==
  ASSUME BaseInv, NEW p \in Procs, ChatStep(p)
  PROVE  Joins(p)
<1>1. CASE SessionExists(p) \/ NewestSession(p) \/ CreateSession(p)
  BY <1>1, SearchersJoin
<1>2. CASE MigrateReads(p) \/ MigratePipe(p)
  BY <1>2, MigrateKind, OthersJoin
<1>3. CASE \/ SetCurrentSession(p) \/ CountSessions(p) \/ ListSessions(p) \/ GetCurrentSessionID(p)
           \/ ListMessages(p) \/ ReadsCurrent(p) \/ Reselect(p) \/ PointAt(p) \/ Repoint(p)
           \/ AppendMessages(p) \/ DeleteSession(p)
  <2>1. Goes(p)
    BY <1>3, ReadersGo, PickersGo, PointersGo, AppendGoes, DeleteGoes
  <2>2. proc[p].step \notin {"known", "exists", "bound", "top", "create"}
    BY <1>3 DEF SetCurrentSession, CountSessions, ListSessions, GetCurrentSessionID, ListMessages,
                ReadsCurrent, Reselect, PointAt, Repoint, AppendMessages, DeleteSession, At
  <2> QED BY <2>1, <2>2, OthersJoin
<1> QED BY <1>1, <1>2, <1>3 DEF ChatStep

(* The server dies: every request under way is lost, and Redis stays.      *)
Dies == /\ ServerDies /\ UNCHANGED <<store, made, misread, gone, expiries, hvars>>
        /\ \E p \in Procs : proc[p].step = "stream"

(* A preview that panics ends a request of the web, or the server.         *)
LEMMA PanicKind ==
  ASSUME NEW p \in Procs, PreviewPanics(p), UNCHANGED hvars
  PROVE  AgentFails(p) \/ Dies
<1>1. At(p, "stream") /\ ReadOnly /\ (ServerDies \/ To(p, "end"))
  BY DEF PreviewPanics
<1>2. proc[p].step = "stream" /\ UNCHANGED <<store, made, misread, gone, expiries, hvars>>
  BY <1>1 DEF At, ReadOnly, Rest
<1> QED BY <1>1, <1>2 DEF AgentFails, Dies

(* What becomes of the requests: those under way are lost, with their      *)
(* sender; the others stay.                                                *)
LEMMA LostFacts ==
  ASSUME BaseInv, Dies
  PROVE  /\ proc' \in [Procs -> ProcRecs]
         /\ \A q \in Procs :
              \/ proc'[q] = proc[q] /\ proc[q].step \in Ends
              \/ /\ proc[q].step \notin Ends /\ proc'[q].step = "lost" /\ proc'[q].req = proc[q].req
                 /\ proc'[q].op = (IF proc[q].op = "im" THEN "im" ELSE "web") /\ proc[q].op # "none"
                 /\ proc'[q].uid = WebUser /\ proc'[q].mig = "no" /\ proc'[q].hist = <<>>
<1>1. proc' = [q \in Procs |-> IF q \in Active THEN Lost(proc[q]) ELSE proc[q]]
  BY DEF Dies, ServerDies
<1>2. ASSUME NEW q \in Procs
      PROVE  /\ Lost(proc[q]).step = "lost" /\ Lost(proc[q]).req = proc[q].req
             /\ Lost(proc[q]).op = (IF proc[q].op = "im" THEN "im" ELSE "web")
             /\ Lost(proc[q]).uid = WebUser /\ Lost(proc[q]).mig = "no" /\ Lost(proc[q]).hist = <<>>
             /\ Lost(proc[q]) \in ProcRecs
  <2>1. proc[q].req \in AllRequests \cup {None}
    BY ProcFacts DEF ProcRecs
  <2>2. "lost" \in AllSteps /\ {"im", "web"} \in SUBSET AllOps
    BY DEF AllSteps, ImSteps, AllOps, WebOps
  <2> QED BY <2>1, <2>2, IdleFacts DEF Lost, ProcRecs
<1>3. \A q \in Procs : proc[q] \in ProcRecs /\ (proc[q].step \notin Ends => proc[q].op # "none")
  BY ProcFacts DEF Placed, Ends
<1>4. \A q \in Procs : IF proc[q].step \in Ends THEN proc'[q] = proc[q] ELSE proc'[q] = Lost(proc[q])
  BY <1>1 DEF Active
<1>5. proc' \in [Procs -> ProcRecs]
  BY <1>1, <1>2, <1>3
<1> QED BY <1>2, <1>3, <1>4, <1>5

(* The whole next-state relation: one request's step, an expiry, or the    *)
(* end of the server.                                                      *)
LEMMA NextKind ==
  ASSUME BaseInv, [Next]_vars
  PROVE  \/ UNCHANGED vars
         \/ \E p \in Procs : Steps(p) /\ Joins(p)
         \/ \E u \in Uids : Expired(u)
         \/ Dies
<1>1. CASE UNCHANGED vars
  BY <1>1
<1>2. ASSUME NEW p \in Procs, HubStep(p)
      PROVE  Steps(p) /\ Joins(p)
  <2>1. Goes(p)
    BY <1>2, MarkGoes, SlotGoes, GetUserGoes, IncrGoes, SetUserGoes, GetChatGoes, BindAndSendGo DEF HubStep
  <2>2. proc[p].step \notin {"known", "exists", "bound", "top", "create"}
    BY <1>2 DEF HubStep, MarkEventProcessed, SlotOrBusy, GetUser, IncrUserSeq, SetUser, GetChat, BindChat,
                Reply, Send, At
  <2> QED BY <1>2, <2>1, <2>2, HubStepKind, OthersJoin
<1>3. ASSUME NEW p \in Procs, NEW q \in Requests[p], Webhook(p, q)
      PROVE  Steps(p) /\ Joins(p)
  <2>1. /\ misread' \in BOOLEAN /\ UNCHANGED <<store, made, gone, expiries, hvars>>
        /\ proc[p].step # "mark"
    BY <1>3 DEF Webhook, CanBegin, BaseInv, RestTyped
  <2> QED BY <1>3, <2>1, WebhookArrives, IdleKind, OthersJoin DEF Steps
<1>4. CASE ChatNext /\ UNCHANGED hvars
  <2>1. ASSUME NEW u \in Uids, IndexExpires(u)
        PROVE  Expired(u)
    BY <1>4, <2>1 DEF IndexExpires, Expired
  <2>2. ASSUME NEW p \in Procs, Deadline(p)
        PROVE  Steps(p) /\ Joins(p)
    <3>1. misread' \in BOOLEAN /\ UNCHANGED <<store, made, gone, expiries>>
      BY <2>2 DEF Deadline, Rest, BaseInv, RestTyped
    <3> QED BY <1>4, <2>2, <3>1, DeadlineLingers, IdleKind, OthersJoin DEF Steps
  <2>3. ASSUME NEW p \in Procs, ChatStep(p) \/ AgentFails(p) \/ AgentStreams(p)
        PROVE  Steps(p) /\ Joins(p)
    <3>1. CASE ChatStep(p)
      BY <1>4, <3>1, ChatStepKind, ChatJoins
    <3>2. CASE AgentFails(p) \/ AgentStreams(p)
      <4>1. proc[p].step = "stream" /\ Goes(p)
        BY <3>2, ReadersGo DEF AgentFails, AgentStreams, At
      <4> QED BY <1>4, <3>2, <4>1, TurnKind, OthersJoin
    <3> QED BY <2>3, <3>1, <3>2
  <2>5. ASSUME NEW p \in Procs, PreviewPanics(p)
        PROVE  (Steps(p) /\ Joins(p)) \/ Dies
    BY <1>4, <2>3, <2>5, PanicKind
  <2>4. ASSUME NEW p \in Procs,
               \/ \E s \in 0..made \cup {None} :
                    \/ ChatProxy(p, s) \/ HistoryProxy(p, s) \/ ClearChatHistory(p, s)
                    \/ DeleteAgentSession(p, s)
               \/ ChatRefused(p) \/ SessionsList(p) \/ CreateAgentSession(p)
        PROVE  Steps(p) /\ Joins(p)
    <3>1. Steps(p) /\ \E r \in ProcRecs : Arrives(p, r)
      BY <1>4, <2>4, ArrivalKind
    <3> QED BY <3>1, OthersJoin
  <2> QED BY <1>4, <2>1, <2>2, <2>3, <2>4, <2>5 DEF ChatNext
<1> QED BY <1>1, <1>2, <1>3, <1>4 DEF Next

-----------------------------------------------------------------------------
(* The base invariant is inductive.                                        *)

(* The record that a step of p leaves.                                     *)
LEMMA AfterStep ==
  ASSUME BaseInv, NEW p \in Procs, Steps(p)
  PROVE  \E r \in ProcRecs :
           /\ Becomes(p, r) /\ Placed(r)
           /\ Arrives(p, r) \/ (Leaves(p) /\ r = Ended(proc[p])) \/ Lingers(p, r) \/ Moves(p, r)
<1>1. CASE Leaves(p)
  <2> DEFINE r == Ended(proc[p])
  <2>1. /\ proc[p] \in ProcRecs /\ Placed(proc[p])
        /\ proc[p].op = "im" => proc[p].step \in TurnSteps /\ proc[p].step # "done"
        /\ proc[p].op # "im" => proc[p].op \in WebOps \ {"web"}
    BY <1>1, ProcFacts DEF Leaves, TurnSteps, WebOps
  <2>2. CASE proc[p].op = "im"
    <3>1. /\ r.op = "im" /\ r.step = "reply" /\ r.uid = WebUser /\ r.req = proc[p].req
          /\ r.mig = "no" /\ r \in ProcRecs
      BY <2>1, <2>2, IdleFacts DEF Ended, ProcRecs, AllOps, AllSteps, ImSteps, TurnSteps
    <3> HIDE DEF r
    <3>2. Placed(r)
      BY <2>1, <2>2, <3>1 DEF Placed, WebOps, ImSteps, TurnSteps, SidSteps, OwnSteps
    <3> QED BY <1>1, <3>1, <3>2 DEF Leaves, r
  <2>3. CASE proc[p].op # "im"
    <3>1. /\ r.op = "web" /\ r.step = "done" /\ r.uid = WebUser
          /\ r.mig = "no" /\ r \in ProcRecs
      BY <2>1, <2>3, IdleFacts DEF Ended, ProcRecs, AllOps, WebOps, AllSteps, ImSteps, TurnSteps
    <3> HIDE DEF r
    <3>2. Placed(r)
      BY <3>1 DEF Placed, WebOps, SidSteps, OwnSteps
    <3> QED BY <1>1, <3>1, <3>2 DEF Leaves, r
  <2> QED BY <2>2, <2>3
<1>2. CASE \E r \in ProcRecs : Arrives(p, r) \/ Lingers(p, r) \/ Moves(p, r)
  BY <1>2 DEF Arrives, Lingers, Moves
<1> QED BY <1>1, <1>2 DEF Steps, Goes

HeldRec(r) == \/ r.op = "chat" /\ r.step \notin Ends
              \/ r.op = "im" /\ r.step \notin Ends \cup {"mark", "slot", "hint", "send"}

(* The holders of a slot, now and after the step.                          *)
LEMMA HoldersAre ==
  /\ Holders = {q \in Procs : HeldRec(proc[q])}
  /\ Holders' = {q \in Procs : HeldRec(proc'[q])}
  /\ Holders \in SUBSET Procs
BY DEF Holders, Held, HeldRec, Active

(* How the set of processes that hold a slot follows p.                    *)
LEMMA HoldersMove ==
  ASSUME BaseInv, NEW p \in Procs, NEW r \in ProcRecs, Becomes(p, r)
  PROVE  /\ (HeldRec(r) <=> HeldRec(proc[p])) => Cardinality(Holders)' = Cardinality(Holders)
         /\ HeldRec(r) /\ ~HeldRec(proc[p]) => Cardinality(Holders)' = Cardinality(Holders) + 1
         /\ ~HeldRec(r) /\ HeldRec(proc[p]) => /\ Cardinality(Holders)' = Cardinality(Holders) - 1
                                               /\ Cardinality(Holders) > 0
<1>1. proc \in [Procs -> ProcRecs]
  BY DEF BaseInv, ProcInv
<1>2. \A q \in Procs : proc'[q] = IF q = p THEN r ELSE proc[q]
  BY <1>1 DEF Becomes
<1>3. IsFiniteSet(Holders) /\ Cardinality(Holders) \in Nat
  BY HoldersAre, ProcsFinite
<1>4. ASSUME HeldRec(r) <=> HeldRec(proc[p])
      PROVE  Holders' = Holders
  BY <1>2, <1>4, HoldersAre
<1>5. ASSUME HeldRec(r), ~HeldRec(proc[p])
      PROVE  Holders' = Holders \cup {p} /\ p \notin Holders
  BY <1>2, <1>5, HoldersAre
<1>6. ASSUME ~HeldRec(r), HeldRec(proc[p])
      PROVE  Holders' = Holders \ {p} /\ p \in Holders
  BY <1>2, <1>6, HoldersAre
<1>7. ASSUME HeldRec(r), ~HeldRec(proc[p])
      PROVE  Cardinality(Holders)' = Cardinality(Holders) + 1
  BY <1>3, <1>5, <1>7, FS_AddElement
<1>8. ASSUME ~HeldRec(r), HeldRec(proc[p])
      PROVE  Cardinality(Holders)' = Cardinality(Holders) - 1 /\ Cardinality(Holders) > 0
  <2>1. Cardinality(Holders \ {p}) = Cardinality(Holders) - 1
    BY <1>3, <1>6, <1>8, FS_RemoveElement
  <2>2. Cardinality(Holders \ {p}) \in Nat
    <3>1. Holders \ {p} \in SUBSET Procs
      BY HoldersAre
    <3> QED BY <3>1, ProcsFinite
  <2> QED BY <1>3, <1>6, <1>8, <2>1, <2>2
<1> QED BY <1>4, <1>7, <1>8

(* The counter of slots follows the holders through every step.            *)
LEMMA SlotsStep ==
  ASSUME BaseInv, NEW p \in Procs, Steps(p)
  PROVE  Slots'
<1>0. /\ sem = Cardinality(Holders) /\ sem <= MaxConc /\ sem \in Nat /\ MaxConc \in Nat
  BY HoldersAre, ProcsFinite, Numbers DEF BaseInv, Slots
<1>1. PICK r \in ProcRecs :
        /\ Becomes(p, r) /\ Placed(r)
        /\ Arrives(p, r) \/ (Leaves(p) /\ r = Ended(proc[p])) \/ Lingers(p, r) \/ Moves(p, r)
  BY AfterStep
<1>2. /\ (HeldRec(r) <=> HeldRec(proc[p])) => Cardinality(Holders)' = Cardinality(Holders)
      /\ HeldRec(r) /\ ~HeldRec(proc[p]) => Cardinality(Holders)' = Cardinality(Holders) + 1
      /\ ~HeldRec(r) /\ HeldRec(proc[p]) => /\ Cardinality(Holders)' = Cardinality(Holders) - 1
                                            /\ Cardinality(Holders) > 0
  BY <1>1, HoldersMove
<1>3. Placed(proc[p]) /\ proc[p].op \in AllOps
  BY ProcFacts
<1>4. CASE Arrives(p, r)
  <2>1. ~HeldRec(proc[p])
    BY <1>4 DEF Arrives, HeldRec, Ends
  <2>2. CASE r.op = "chat"
    <3>1. HeldRec(r) /\ sem' = sem + 1 /\ sem' <= MaxConc
      BY <1>4, <2>2 DEF Arrives, HeldRec, Ends, SlotsOf
    <3> QED BY <1>0, <1>2, <2>1, <3>1 DEF Slots
  <2>3. CASE r.op # "chat"
    <3>1. ~HeldRec(r) /\ sem' = sem
      BY <1>0, <1>4, <2>3 DEF Arrives, HeldRec, Ends, SlotsOf, WebOps
    <3> QED BY <1>0, <1>2, <2>1, <3>1 DEF Slots
  <2> QED BY <2>2, <2>3
<1>5. CASE Leaves(p) /\ r = Ended(proc[p])
  <2>1. CASE proc[p].op = "im"
    <3>1. r.op = "im" /\ r.step = "reply" /\ sem' = sem
      BY <1>0, <1>5, <2>1 DEF Leaves, Ended, Idle, SlotsOf
    <3>2. HeldRec(r) /\ HeldRec(proc[p])
      BY <1>5, <2>1, <3>1 DEF Leaves, HeldRec, Ends, TurnSteps, WebOps
    <3> QED BY <1>0, <1>2, <3>1, <3>2 DEF Slots
  <2>2. CASE proc[p].op # "im"
    <3>1. r.op = "web" /\ r.step = "done" /\ sem' = sem - SlotsOf(proc[p].op)
      BY <1>5, <2>2 DEF Leaves, Ended, Idle
    <3>2. ~HeldRec(r) /\ (HeldRec(proc[p]) <=> proc[p].op = "chat")
      BY <1>3, <1>5, <2>2, <3>1 DEF Leaves, HeldRec, Ends, Placed, WebOps, WebSteps
    <3> QED BY <1>0, <1>2, <3>1, <3>2 DEF Slots, SlotsOf
  <2> QED BY <2>1, <2>2
<1>6. CASE Lingers(p, r)
  <2>1. (HeldRec(r) <=> HeldRec(proc[p])) /\ sem' = sem
    BY <1>6 DEF Lingers, HeldRec
  <2> QED BY <1>0, <1>2, <2>1 DEF Slots
<1>7. CASE Moves(p, r)
  <2>0. r.op = proc[p].op /\ Edge(proc[p].op, proc[p].step, r.step) /\ SemMoves(p, r)
    BY <1>7 DEF Moves
  <2>1. CASE proc[p].step = "slot" /\ r.step = "user"
    <3>1. proc[p].op = "im" /\ sem' = sem + 1 /\ sem < MaxConc
      BY <2>0, <2>1, ImOp DEF SemMoves
    <3>2. HeldRec(r) /\ ~HeldRec(proc[p])
      BY <2>0, <2>1, <3>1 DEF HeldRec, Ends
    <3> QED BY <1>0, <1>2, <3>1, <3>2 DEF Slots
  <2>2. CASE proc[p].step = "reply"
    <3>1. proc[p].op = "im" /\ sem' = ReleaseAgentSlot /\ r.step = "send"
      BY <2>0, <2>2, ImOp DEF SemMoves, Edge
    <3>2. ~HeldRec(r) /\ HeldRec(proc[p])
      BY <2>0, <2>2, <3>1 DEF HeldRec, Ends
    <3> QED BY <1>0, <1>2, <3>1, <3>2 DEF Slots, ReleaseAgentSlot
  <2>3. CASE ~(proc[p].step = "slot" /\ r.step = "user") /\ proc[p].step # "reply"
    <3>1. sem' = sem
      BY <2>0, <2>3 DEF SemMoves
    <3>2. proc[p].op # "none" /\ proc[p].op # "web"
      BY <1>3, <2>0 DEF Placed, Edge
    <3>3. HeldRec(r) <=> HeldRec(proc[p])
      <4>1. CASE proc[p].op = "im"
        <5>1. HeldRec(proc[p]) <=> proc[p].step \notin {"idle", "done", "lost", "mark", "slot", "hint", "send"}
          BY <4>1 DEF HeldRec, Ends
        <5>2. HeldRec(r) <=> r.step \notin {"idle", "done", "lost", "mark", "slot", "hint", "send"}
          BY <2>0, <4>1 DEF HeldRec, Ends
        <5>3. proc[p].step \in ImSteps
          BY <1>3, <4>1 DEF Placed
        <5> QED BY <2>0, <2>3, <5>1, <5>2, <5>3 DEF Edge, ImSteps, TurnSteps
      <4>2. CASE proc[p].op = "chat"
        <5>1. proc[p].step \in WebSteps /\ r.step \in WebSteps
          BY <1>1, <1>3, <2>0, <4>2 DEF Placed, WebOps
        <5> QED BY <2>0, <4>2, <5>1 DEF HeldRec, Ends, WebSteps
      <4>3. CASE proc[p].op \notin {"im", "chat"}
        BY <2>0, <4>3 DEF HeldRec
      <4> QED BY <4>1, <4>2, <4>3
    <3> QED BY <1>0, <1>2, <3>1, <3>3 DEF Slots
  <2> QED BY <2>1, <2>2, <2>3
<1> QED BY <1>1, <1>4, <1>5, <1>6, <1>7

(* The numbers handed out never exceed the requests that may draw one.     *)
LEMMA CountedStep ==
  ASSUME BaseInv, NEW p \in Procs, Steps(p)
  PROVE  Counted'
<1>1. PICK r \in ProcRecs :
        /\ Becomes(p, r) /\ Placed(r)
        /\ Arrives(p, r) \/ (Leaves(p) /\ r = Ended(proc[p])) \/ Lingers(p, r) \/ Moves(p, r)
  BY AfterStep
<1>2. proc \in [Procs -> ProcRecs] /\ \A q \in Procs : proc'[q] = IF q = p THEN r ELSE proc[q]
  BY <1>1 DEF BaseInv, ProcInv, Becomes
<1>3. Leaves(p) /\ r = Ended(proc[p]) => r.step \in {"reply", "done"}
  BY DEF Ended, Idle
<1>4. MayCreate(r) => MayCreate(proc[p])
  <2>1. CASE Arrives(p, r)
    BY <2>1 DEF Arrives, MayCreate
  <2>2. CASE Leaves(p) /\ r = Ended(proc[p])
    BY <1>3, <2>2 DEF MayCreate
  <2>3. CASE Lingers(p, r)
    BY <2>3 DEF Lingers, MayCreate
  <2>4. CASE Moves(p, r)
    BY <2>4 DEF Moves, Edge, MayCreate
  <2> QED BY <1>1, <2>1, <2>2, <2>3, <2>4
<1>5. MayIncr(r) => MayIncr(proc[p])
  <2>1. CASE Arrives(p, r)
    BY <2>1 DEF Arrives, MayIncr
  <2>2. CASE Leaves(p) /\ r = Ended(proc[p])
    BY <1>3, <2>2 DEF MayIncr
  <2>3. CASE Lingers(p, r)
    BY <2>3 DEF Lingers, MayIncr
  <2>4. CASE Moves(p, r)
    BY <2>4 DEF Moves, Edge, MayIncr
  <2> QED BY <1>1, <2>1, <2>2, <2>3, <2>4
<1>6. /\ Creators' = {q \in Procs : MayCreate(proc'[q])}
      /\ Drawers' = {q \in Procs : MayIncr(proc'[q])}
  BY DEF Creators, Drawers
<1>7. Creators' \in SUBSET Creators /\ Creators \in SUBSET Procs
  BY <1>2, <1>4, <1>6 DEF Creators
<1>8. Drawers' \in SUBSET Drawers /\ Drawers \in SUBSET Procs
  BY <1>2, <1>5, <1>6 DEF Drawers
<1>9. /\ Cardinality(Creators') \in Nat /\ Cardinality(Creators) \in Nat
      /\ Cardinality(Creators') <= Cardinality(Creators)
      /\ \A q \in Creators : q \notin Creators' => Cardinality(Creators') + 1 <= Cardinality(Creators)
  BY <1>7, CountDown
<1>10. /\ Cardinality(Drawers') \in Nat /\ Cardinality(Drawers) \in Nat
       /\ Cardinality(Drawers') <= Cardinality(Drawers)
       /\ \A q \in Drawers : q \notin Drawers' => Cardinality(Drawers') + 1 <= Cardinality(Drawers)
  BY <1>8, CountDown
<1>11. made' \in Nat /\ made' + Cardinality(Creators') <= Calls
  <2>0. made \in Nat /\ made + Cardinality(Creators) <= Calls
    BY DEF BaseInv, Counted
  <2>1. CASE made' = made
    BY <1>9, <2>0, <2>1, Numbers
  <2>2. CASE proc[p].step = "create" /\ ~MayCreate(proc'[p]) /\ made' = made + 1
    <3>1. p \in Creators /\ p \notin Creators'
      BY <1>6, <2>2 DEF Creators, MayCreate
    <3> QED BY <1>9, <2>0, <2>2, <3>1, Numbers
  <2> QED BY <2>1, <2>2 DEF Steps, Keeps, Makes
<1>12. seq' \in Nat /\ seq' + Cardinality(Drawers') <= Calls
  <2>0. seq \in Nat /\ seq + Cardinality(Drawers) <= Calls
    BY DEF BaseInv, Counted
  <2>1. CASE seq' = seq
    BY <1>10, <2>0, <2>1, Numbers
  <2>2. CASE proc[p].step = "incr" /\ ~MayIncr(proc'[p]) /\ seq' = seq + 1
    <3>1. p \in Drawers /\ p \notin Drawers'
      BY <1>6, <2>2 DEF Drawers, MayIncr
    <3> QED BY <1>10, <2>0, <2>2, <3>1, Numbers
  <2> QED BY <2>1, <2>2 DEF Steps, HubKeys
<1> QED BY <1>11, <1>12 DEF Counted

(* The session store keeps its type through every step.                    *)
LEMMA StoreStep ==
  ASSUME BaseInv, NEW p \in Procs, Steps(p)
  PROVE  StoreTyped' /\ RestTyped' /\ ProcInv'
<1>1. StoreTyped'
  BY DEF Steps, Writes, BaseInv, StoreTyped
<1>2. RestTyped'
  <2>1. proc[p].uid \in Uids /\ (proc[p].step = "del" => proc[p].sid \in Sids)
    BY ProcFacts DEF Placed, SidSteps
  <2>2. gone' \in SUBSET (Uids \X Sids)
    BY <2>1 DEF Steps, Keeps, Buries, BaseInv, RestTyped
  <2> QED BY <2>2 DEF Steps, Keeps, BaseInv, RestTyped
<1>3. ProcInv'
  <2>1. PICK r \in ProcRecs : Becomes(p, r) /\ Placed(r)
    BY AfterStep
  <2>2. proc \in [Procs -> ProcRecs] /\ \A q \in Procs : Placed(proc[q])
    BY DEF BaseInv, ProcInv
  <2>3. proc' \in [Procs -> ProcRecs] /\ \A q \in Procs : proc'[q] = IF q = p THEN r ELSE proc[q]
    BY <2>1, <2>2 DEF Becomes
  <2>4. \A q \in Procs : Placed(proc'[q])
    BY <2>1, <2>2, <2>3
  <2> QED BY <2>3, <2>4 DEF ProcInv
<1> QED BY <1>1, <1>2, <1>3

(* So do the hub's keys.                                                   *)
LEMMA HubStepTyped ==
  ASSUME BaseInv, NEW p \in Procs, Steps(p)
  PROVE  HubTyped'
<1>0. HubTyped /\ HubKeys(p)
  BY DEF BaseInv, Steps
<1>1. ids' \in [Users -> (Uids \ {WebUser}) \cup {None}]
  <2>1. CASE ids' = ids
    BY <1>0, <2>1 DEF HubTyped
  <2>2. CASE proc[p].step = "set_user" /\ ids' = [ids EXCEPT ![In(p).user] = proc[p].uid]
    <3>1. proc[p].uid \in Uids \ {WebUser}
      BY <2>2, ImOp, ProcFacts DEF Placed, OwnSteps
    <3> QED BY <1>0, <2>2, <3>1 DEF HubTyped
  <2> QED BY <1>0, <2>1, <2>2 DEF HubKeys
<1>2. chats' \in [Chats -> Sids \cup {None}]
  <2>1. CASE chats' = chats
    BY <1>0, <2>1 DEF HubTyped
  <2>2. CASE proc[p].step = "bind" /\ chats' = [chats EXCEPT ![In(p).chat] = proc[p].sid]
    <3>1. proc[p].sid \in Sids
      BY <2>2, ProcFacts DEF Placed, SidSteps
    <3> QED BY <1>0, <2>2, <3>1 DEF HubTyped
  <2> QED BY <1>0, <2>1, <2>2 DEF HubKeys
<1>3. seen' \in SUBSET Events /\ unsure' \in SUBSET Events
  <2>1. proc[p].step = "mark" => In(p).event \in Events
    BY ImOp, InFacts DEF ImSteps
  <2> QED BY <1>0, <2>1 DEF HubTyped, HubKeys, Marks
<1>4. replied' \in [Procs -> BOOLEAN]
  BY <1>0 DEF HubTyped, HubKeys, Answers
<1> QED BY <1>1, <1>2, <1>3, <1>4 DEF HubTyped

(* No request has arrived and every key is empty.                          *)
LEMMA BaseInit ==
  ASSUME Init
  PROVE  BaseInv
<1> USE Numbers
<1>1. proc = [q \in Procs |-> Idle] /\ Idle \in ProcRecs /\ Idle.op = "none" /\ Idle.step = "idle"
  BY IdleFacts DEF Init, ChatInit, ProcRecs
<1>2. ProcInv
  <2>1. Placed(Idle)
    BY IdleFacts DEF Placed, WebOps, SidSteps, OwnSteps
  <2> QED BY <1>1, <2>1 DEF ProcInv
<1>3. StoreTyped
  <2> DEFINE e(u) == [index |-> <<>>, current |-> None, msgs |-> [s \in Sids |-> <<>>],
                      legacy |-> HasLegacy /\ u = WebUser]
  <2>1. store = [u \in Uids |-> e(u)]
    BY DEF Init, ChatInit
  <2>2. <<>> \in Seq(Sids) /\ IsInjective(<<>>) /\ <<>> \in Seq(0..Calls)
    BY DEF IsInjective
  <2>3. \A u \in Uids : e(u) \in UserRecs
    BY <2>2 DEF UserRecs
  <2> QED BY <2>1, <2>3 DEF StoreTyped
<1>4. Counted
  <2>1. Creators \in SUBSET Procs /\ Drawers \in SUBSET Procs
    BY DEF Creators, Drawers
  <2>2. IsFiniteSet(Procs) /\ Cardinality(Procs) = Calls
    BY FS_Interval DEF Procs
  <2>3. /\ Cardinality(Creators) \in Nat /\ Cardinality(Creators) <= Calls
        /\ Cardinality(Drawers) \in Nat /\ Cardinality(Drawers) <= Calls
    BY <2>1, <2>2, FS_Subset, ProcsFinite
  <2> QED BY <2>3 DEF Counted, Init, ChatInit
<1>5. HubTyped /\ RestTyped
  <2>1. expiries \in 0..Expiries /\ misread \in BOOLEAN /\ gone \in SUBSET (Uids \X Sids)
    <3>1. expiries = 0 /\ misread = FALSE /\ gone = {}
      BY DEF Init, ChatInit
    <3>2. 0 \in 0..Expiries
      OBVIOUS
    <3>3. {} \in SUBSET (Uids \X Sids)
      OBVIOUS
    <3> QED BY <3>1, <3>2, <3>3
  <2>2. seen \in SUBSET Events /\ unsure \in SUBSET Events /\ replied \in [Procs -> BOOLEAN]
    BY DEF Init
  <2>3. ids = [u \in Users |-> None] /\ chats = [c \in Chats |-> None]
    BY DEF Init
  <2>4. ids \in [Users -> (Uids \ {WebUser}) \cup {None}]
    BY <2>3
  <2>5. chats \in [Chats -> Sids \cup {None}]
    BY <2>3
  <2> QED BY <2>1, <2>2, <2>4, <2>5 DEF HubTyped, RestTyped
<1>6. Slots
  <2>1. Holders = {}
    BY <1>1, HoldersAre DEF HeldRec
  <2> QED BY <2>1, FS_EmptySet DEF Slots, Init, ChatInit
<1> QED BY <1>2, <1>3, <1>4, <1>5, <1>6 DEF BaseInv

(* An index that expires keeps the legacy flag and at most its messages.   *)
LEMMA ExpiredStep ==
  ASSUME BaseInv, NEW u \in Uids, Expired(u)
  PROVE  \E n \in UserRecs :
           /\ store' = [store EXCEPT ![u] = n]
           /\ ToSet(n.index) = {} /\ n.legacy = store[u].legacy
           /\ \A s \in Sids : ToSet(n.msgs[s]) \in SUBSET ToSet(store[u].msgs[s])
<1> DEFINE f == [s \in Sids |-> IF s = LegacySid THEN store[u].msgs[s] ELSE <<>>]
           n == [store[u] EXCEPT !.index = <<>>, !.msgs = f]
<1>1. store[u] \in UserRecs /\ store \in [Uids -> UserRecs]
  BY DEF BaseInv, StoreTyped
<1>2. <<>> \in Seq(Sids) /\ IsInjective(<<>>) /\ <<>> \in Seq(0..Calls) /\ ToSet(<<>>) = {}
  BY DEF IsInjective, ToSet
<1>3. f \in [Sids -> Seq(0..Calls)] /\ \A s \in Sids : ToSet(f[s]) \in SUBSET ToSet(store[u].msgs[s])
  BY <1>1, <1>2 DEF UserRecs
<1>4. store' = [store EXCEPT ![u] = n]
  BY <1>1 DEF Expired, UserRecs
<1> HIDE DEF f
<1>5. n \in UserRecs /\ n.index = <<>> /\ n.msgs = f /\ n.legacy = store[u].legacy
  BY <1>1, <1>2, <1>3 DEF UserRecs
<1> HIDE DEF n
<1> QED BY <1>2, <1>3, <1>4, <1>5

(* When the server dies no request holds a slot, makes a session or draws  *)
(* an id any more.                                                         *)
LEMMA BaseDies ==
  ASSUME BaseInv, Dies
  PROVE  BaseInv'
<1>0. /\ UNCHANGED <<store, made, misread, gone, expiries, hvars>> /\ sem' = 0
      /\ proc' \in [Procs -> ProcRecs]
      /\ \A q \in Procs : proc'[q] = proc[q] \/ proc'[q].step = "lost"
  BY LostFacts DEF Dies, ServerDies
<1>1. StoreTyped' /\ RestTyped' /\ HubTyped'
  BY <1>0 DEF BaseInv, StoreTyped, RestTyped, HubTyped, hvars
<1>2. ProcInv'
  <2>1. ASSUME NEW q \in Procs
        PROVE  Placed(proc'[q])
    <3>1. CASE proc'[q] = proc[q]
      BY <3>1, ProcFacts
    <3>2. CASE proc'[q] # proc[q]
      <4>1. /\ Placed(proc[q]) /\ proc[q].step \notin Ends /\ proc'[q].step = "lost"
            /\ proc'[q].req = proc[q].req /\ proc'[q].op = (IF proc[q].op = "im" THEN "im" ELSE "web")
            /\ proc'[q].uid = WebUser /\ proc'[q].mig = "no"
        BY <3>2, ProcFacts, LostFacts
      <4>2. proc[q].op = "im" => Adapter(proc[q].req) \in Inbounds
        BY <4>1 DEF Placed, Ends
      <4>3. CASE proc[q].op = "im"
        <5>1. proc'[q].op = "im"
          BY <4>1, <4>3
        <5> QED BY <4>1, <4>2, <4>3, <5>1 DEF Placed, WebOps, ImSteps, SidSteps, OwnSteps
      <4>4. CASE proc[q].op # "im"
        <5>1. proc'[q].op = "web"
          BY <4>1, <4>4
        <5> QED BY <4>1, <5>1 DEF Placed, WebOps, SidSteps, OwnSteps
      <4> QED BY <4>3, <4>4
    <3> QED BY <3>1, <3>2
  <2> QED BY <1>0, <2>1 DEF ProcInv
<1>3. Counted'
  <2>1. \A q \in Procs : /\ MayCreate(proc'[q]) => MayCreate(proc[q])
                         /\ MayIncr(proc'[q]) => MayIncr(proc[q])
    BY <1>0 DEF MayCreate, MayIncr
  <2>2. /\ Creators' = {q \in Procs : MayCreate(proc'[q])}
        /\ Drawers' = {q \in Procs : MayIncr(proc'[q])}
    BY DEF Creators, Drawers
  <2>3. /\ Creators' \in SUBSET Creators /\ Creators \in SUBSET Procs
        /\ Drawers' \in SUBSET Drawers /\ Drawers \in SUBSET Procs
    BY <2>1, <2>2 DEF Creators, Drawers
  <2>4. /\ Cardinality(Creators') \in Nat /\ Cardinality(Creators) \in Nat
        /\ Cardinality(Creators') <= Cardinality(Creators)
        /\ Cardinality(Drawers') \in Nat /\ Cardinality(Drawers) \in Nat
        /\ Cardinality(Drawers') <= Cardinality(Drawers)
    BY <2>3, CountDown
  <2>5. /\ made' \in Nat /\ made' + Cardinality(Creators) <= Calls
        /\ seq' \in Nat /\ seq' + Cardinality(Drawers) <= Calls
    BY <1>0 DEF BaseInv, Counted, hvars
  <2>6. /\ made' + Cardinality(Creators') <= Calls
        /\ seq' + Cardinality(Drawers') <= Calls
    BY <2>4, <2>5, Numbers
  <2> QED BY <2>5, <2>6 DEF Counted
<1>4. Slots'
  <2>1. \A q \in Procs : proc'[q].step \in Ends
    BY LostFacts DEF Ends
  <2>2. Holders' = {}
    BY <2>1, HoldersAre DEF HeldRec
  <2>3. MaxConc \in Nat
    BY Numbers
  <2> QED BY <1>0, <2>2, <2>3, FS_EmptySet DEF Slots
<1> QED BY <1>1, <1>2, <1>3, <1>4 DEF BaseInv

(* The base invariant is inductive.                                        *)
LEMMA BaseNext ==
  ASSUME BaseInv, [Next]_vars
  PROVE  BaseInv'
<1>1. CASE UNCHANGED vars
  BY <1>1 DEF vars, cvars, hvars, BaseInv, StoreTyped, ProcInv, Counted, Creators, Drawers, HubTyped,
              RestTyped, Slots, Holders, Held, Active
<1>2. ASSUME NEW p \in Procs, Steps(p)
      PROVE  BaseInv'
  BY <1>2, SlotsStep, CountedStep, StoreStep, HubStepTyped DEF BaseInv
<1>3. ASSUME NEW u \in Uids, Expired(u)
      PROVE  BaseInv'
  <2>1. StoreTyped'
    BY <1>3, ExpiredStep DEF BaseInv, StoreTyped
  <2>2. RestTyped'
    BY <1>3, Numbers DEF BaseInv, RestTyped, Expired
  <2>3. UNCHANGED <<made, sem, proc, hvars>>
    BY <1>3 DEF Expired
  <2>4. ProcInv' /\ Counted' /\ HubTyped' /\ Slots'
    BY <2>3 DEF hvars, BaseInv, ProcInv, Counted, Creators, Drawers, HubTyped, Slots, Holders, Held, Active
  <2> QED BY <2>1, <2>2, <2>4 DEF BaseInv
<1> QED BY <1>1, <1>2, <1>3, BaseDies, NextKind

(* It holds at every moment of every run.                                  *)
LEMMA BaseInvariant == Spec => []BaseInv
BY BaseInit, BaseNext, PTL DEF Spec

(* Every variable has its type, for any number of requests: no run makes   *)
(* more sessions or user ids than there are requests to draw them, and a   *)
(* session index never lists a session twice.                              *)
THEOREM ChannelTypes == Spec => []TypeOK
<1>1. ASSUME BaseInv
      PROVE  TypeOK
  <2>1. \A u \in Uids : LET s == store[u] IN
          /\ s.index \in Seq(Sids) /\ IsInjective(s.index) /\ s.current \in Sids \cup {None}
          /\ \A i \in Sids : s.msgs[i] \in Seq(0..Calls)
          /\ s.legacy \in BOOLEAN
    BY <1>1 DEF BaseInv, StoreTyped, UserRecs
  <2>2. made \in Sids /\ seq \in 0..Calls
    BY <1>1, CountsFit
  <2>3. sem \in 0..MaxConc
    BY <1>1, HoldersAre, ProcsFinite, Numbers DEF BaseInv, Slots
  <2>4. \A p \in Procs : /\ proc[p].op \in WebOps \cup {"none", "im"} /\ proc[p].uid \in Uids
                         /\ proc[p].sid \in Sids \cup {None} /\ proc[p].mig \in {"no", "read", "done"}
    BY <1>1, ProcFacts DEF AllOps
  <2>5. RestTyped /\ HubTyped
    BY <1>1 DEF BaseInv
  <2>6. ChatTypeOK
    BY <2>1, <2>2, <2>3, <2>4, <2>5 DEF ChatTypeOK, RestTyped
  <2> QED BY <2>2, <2>5, <2>6 DEF TypeOK, HubTyped
<1> QED BY <1>1, BaseInvariant, PTL

(* The slots taken are those of the turns under way: whatever way a chat   *)
(* or a turn of the hub ends, by an early return, an error, a timeout or   *)
(* a full pool, TryAcquireAgentSlot and ReleaseAgentSlot are in step; the  *)
(* panic of a preview frees them all with the server, or the one of a chat *)
(* of the web.                                                             *)
THEOREM SlotsBalancedHolds == Spec => []SlotsBalanced
<1>1. BaseInv => SlotsBalanced
  BY DEF BaseInv, Slots, SlotsBalanced, Holders
<1> QED BY <1>1, BaseInvariant, PTL

-----------------------------------------------------------------------------
(* Each event is taken by one delivery.                                    *)

(* A delivery of e that has passed its mark, or has been answered.         *)
Taken(r, answered, e) ==
  /\ r.op = "im" /\ Adapter(r.req) # NoInbound /\ Adapter(r.req).event = e
  /\ r.step \notin {"mark", "done", "lost"} \/ answered

AnsweredInv ==
  /\ \A e \in Events \ unsure : \A p \in Procs :
       Taken(proc[p], replied[p], e) =>
         /\ e \in seen
         /\ \A q \in Procs : Taken(proc[q], replied[q], e) => p = q
  /\ \A p \in Procs : proc[p].step \in {"idle", "mark"} => ~replied[p]

(* No event is taken before the first request.                             *)
LEMMA AnsweredInit ==
  ASSUME Init
  PROVE  AnsweredInv
<1>1. \A p \in Procs : proc[p] = Idle /\ replied[p] = FALSE
  BY DEF Init, ChatInit
<1>2. \A p \in Procs, e \in Events : ~Taken(proc[p], replied[p], e)
  BY <1>1, IdleFacts DEF Taken
<1> QED BY <1>1, <1>2 DEF AnsweredInv

(* A step takes an event only at its mark, if it was not seen there.       *)
LEMMA NewlyTaken ==
  ASSUME BaseInv, AnsweredInv, NEW p \in Procs, Steps(p), NEW e \in Events \ unsure',
         Taken(proc'[p], replied'[p], e)
  PROVE  Taken(proc[p], replied[p], e) \/ (e \notin seen /\ e \in seen')
<1>1. PICK r \in ProcRecs :
        /\ Becomes(p, r) /\ Placed(r)
        /\ Arrives(p, r) \/ (Leaves(p) /\ r = Ended(proc[p])) \/ Lingers(p, r) \/ Moves(p, r)
  BY AfterStep
<1>2. /\ proc'[p] = r /\ Marks(p) /\ Answers(p) /\ replied[p] \in BOOLEAN /\ replied \in [Procs -> BOOLEAN]
      /\ proc[p].step \in {"idle", "mark"} => replied[p] = FALSE
      /\ e # None
  BY <1>1 DEF Becomes, BaseInv, ProcInv, HubTyped, Steps, HubKeys, AnsweredInv, Events
<1>3. replied'[p] = replied[p] \/ proc[p].step \in {"send", "hint"}
  BY <1>2 DEF Answers
<1>4. CASE Arrives(p, r)
  BY <1>2, <1>3, <1>4 DEF Arrives, Taken, WebOps
<1>5. CASE Leaves(p) /\ r = Ended(proc[p])
  <2>1. proc[p].op = "im"
    BY <1>2, <1>5 DEF Ended, Idle, Taken
  <2>2. r.req = proc[p].req
    BY <1>5, <2>1 DEF Ended, Idle
  <2>3. proc[p].step \in TurnSteps
    BY <1>5, <2>1 DEF Leaves, WebOps
  <2> QED BY <1>2, <2>1, <2>2, <2>3 DEF Taken, TurnSteps
<1>6. CASE Lingers(p, r)
  BY <1>2, <1>3, <1>6 DEF Lingers, Taken
<1>7. CASE Moves(p, r)
  <2>0. r.op = proc[p].op /\ r.req = proc[p].req /\ Edge(proc[p].op, proc[p].step, r.step)
    BY <1>7 DEF Moves
  <2>1. CASE proc[p].step # "mark"
    <3>1. proc[p].step \notin {"done", "lost"}
      BY <2>0 DEF Edge
    <3> QED BY <1>2, <2>0, <2>1, <3>1 DEF Taken
  <2>2. CASE proc[p].step = "mark"
    <3>1. replied'[p] = FALSE /\ In(p).event = e
      BY <1>2, <1>3, <2>0, <2>2 DEF Taken, In
    <3>2. r.step \notin {"mark", "done", "lost"}
      BY <1>2, <3>1 DEF Taken
    <3> QED BY <1>2, <2>2, <3>1, <3>2 DEF Marks
  <2> QED BY <2>1, <2>2
<1> QED BY <1>1, <1>4, <1>5, <1>6, <1>7

(* A step takes at most the event it has just marked.                      *)
LEMMA AnsweredStep ==
  ASSUME BaseInv, AnsweredInv, NEW p \in Procs, Steps(p)
  PROVE  AnsweredInv'
<1>1. PICK r \in ProcRecs :
        /\ Becomes(p, r) /\ Placed(r)
        /\ Arrives(p, r) \/ (Leaves(p) /\ r = Ended(proc[p])) \/ Lingers(p, r) \/ Moves(p, r)
  BY AfterStep
<1>2. /\ proc \in [Procs -> ProcRecs] /\ replied \in [Procs -> BOOLEAN] /\ Marks(p) /\ Answers(p)
  BY DEF BaseInv, ProcInv, HubTyped, Steps, HubKeys
<1>3. \A q \in Procs : /\ proc'[q] = IF q = p THEN r ELSE proc[q]
                       /\ q # p => replied'[q] = replied[q]
                       /\ proc[q].step \in {"idle", "mark"} => ~replied[q]
  BY <1>1, <1>2 DEF Becomes, Answers, AnsweredInv
<1>4. \A e \in seen : e \in seen'
  BY <1>2 DEF Marks
<1>5. \A e \in unsure : e \in unsure'
  BY <1>2 DEF Marks
<1>6. r.step \in {"idle", "mark"} => ~replied'[p]
  <2>1. r.step # "idle" \/ proc[p].step = "idle"
    BY <1>1 DEF Arrives, Leaves, Ended, Idle, Lingers, Moves, Edge, Placed
  <2>2. r.step = "mark" => proc[p].step \in {"idle", "mark"}
    BY <1>1 DEF Arrives, Leaves, Ended, Idle, Lingers, Moves, Edge
  <2> QED BY <1>2, <1>3, <2>1, <2>2 DEF Answers
<1>7. ASSUME NEW e \in Events \ unsure', NEW q \in Procs, Taken(proc'[q], replied'[q], e)
      PROVE  /\ e \in seen'
             /\ \A o \in Procs : Taken(proc'[o], replied'[o], e) => q = o
  <2>0. e \in Events \ unsure
    BY <1>5
  <2>1. \A o \in Procs : Taken(proc[o], replied[o], e) =>
          e \in seen /\ \A x \in Procs : Taken(proc[x], replied[x], e) => o = x
    BY <2>0 DEF AnsweredInv
  <2>2. \A o \in Procs : o # p /\ Taken(proc'[o], replied'[o], e) => Taken(proc[o], replied[o], e)
    BY <1>3
  <2>3. Taken(proc'[p], replied'[p], e) =>
          Taken(proc[p], replied[p], e) \/ (e \notin seen /\ e \in seen')
    BY NewlyTaken
  <2>4. e \in seen'
    BY <1>4, <1>7, <2>1, <2>2, <2>3
  <2>5. ASSUME NEW o \in Procs, Taken(proc'[o], replied'[o], e)
        PROVE  q = o
    BY <1>7, <2>1, <2>2, <2>3, <2>5
  <2> QED BY <2>4, <2>5
<1>8. \A q \in Procs : proc'[q].step \in {"idle", "mark"} => ~replied'[q]
  BY <1>3, <1>6
<1> QED BY <1>7, <1>8 DEF AnsweredInv

(* So no event is ever taken twice.                                        *)
LEMMA AnsweredNext ==
  ASSUME BaseInv, AnsweredInv, [Next]_vars
  PROVE  AnsweredInv'
<1>1. CASE UNCHANGED <<proc, hvars>>
  BY <1>1 DEF hvars, AnsweredInv
<1>2. ASSUME NEW u \in Uids, Expired(u)
      PROVE  UNCHANGED <<proc, hvars>>
  BY <1>2 DEF Expired
<1>3. UNCHANGED vars => UNCHANGED <<proc, hvars>>
  BY DEF vars, cvars
<1>4. CASE Dies
  <2>1. /\ UNCHANGED hvars
        /\ \A q \in Procs : \/ proc'[q] = proc[q]
                            \/ /\ proc'[q].step = "lost" /\ proc'[q].req = proc[q].req
                               /\ proc'[q].op = "im" => proc[q].op = "im"
    BY <1>4, LostFacts DEF Dies
  <2>2. /\ seen' = seen /\ unsure' = unsure /\ replied' = replied
    BY <2>1 DEF hvars
  <2>3. \A q \in Procs, e \in Events : Taken(proc'[q], replied[q], e) => Taken(proc[q], replied[q], e)
    BY <2>1 DEF Taken
  <2>4. \A q \in Procs : proc'[q].step \in {"idle", "mark"} => ~replied[q]
    BY <2>1 DEF AnsweredInv
  <2>5. ASSUME NEW e \in Events \ unsure, NEW q \in Procs, Taken(proc'[q], replied[q], e)
        PROVE  e \in seen /\ \A o \in Procs : Taken(proc'[o], replied[o], e) => q = o
    BY <2>3, <2>5 DEF AnsweredInv
  <2> QED BY <2>2, <2>4, <2>5 DEF AnsweredInv
<1> QED BY <1>1, <1>2, <1>3, <1>4, NextKind, AnsweredStep

(* An event is answered by one delivery of it at most, unless the command  *)
(* that marks it failed: of any number of deliveries, in any interleaving  *)
(* of their webhooks and turns, SET NX lets one pass, and what lets it     *)
(* pass is kept in seen for as long as the others may ask.                 *)
THEOREM RepliedOnceHolds == Spec => []RepliedOnce
<1>1. ASSUME AnsweredInv
      PROVE  RepliedOnce
  <2> SUFFICES ASSUME NEW e \in Events \ unsure
               PROVE  Cardinality({p \in Procs : proc[p].op = "im" /\ In(p) # NoInbound
                                                 /\ In(p).event = e /\ replied[p]}) <= 1
    BY DEF RepliedOnce
  <2> DEFINE S == {p \in Procs : proc[p].op = "im" /\ In(p) # NoInbound /\ In(p).event = e /\ replied[p]}
  <2>1. \A p, q \in S : p = q
    BY <1>1 DEF AnsweredInv, Taken, In
  <2> HIDE DEF S
  <2>2. Cardinality(S) <= 1
    <3>1. CASE S = {}
      BY <3>1, FS_EmptySet
    <3>2. CASE S # {}
      <4>1. PICK p \in S : S = {p}
        BY <2>1, <3>2
      <4>2. Cardinality({p}) = 1
        BY FS_Singleton
      <4> QED BY <4>1, <4>2
    <3> QED BY <3>1, <3>2
  <2> QED BY <2>2 DEF S
<1> QED BY <1>1, BaseInvariant, AnsweredInit, AnsweredNext, PTL DEF Spec

-----------------------------------------------------------------------------
(* What is deleted stays out of the index.                                 *)

IndexInv ==
  \A u \in Uids : /\ \A s \in Listed(u) : s \in 0..made
                  /\ LegacySid \in Listed(u) => ~store[u].legacy
                  /\ store[u].legacy => u = WebUser
JoinedInv ==
  \A p \in Procs :
    /\ proc[p].step \in Joined =>
         proc[p].sid \in 0..made /\ (proc[p].sid = LegacySid => ~store[proc[p].uid].legacy)
    /\ proc[p].mig = "read" => proc[p].uid = WebUser
BuriedInv ==
  \A d \in gone : /\ d[1] = WebUser /\ d[2] \in 0..made /\ d[2] \notin Listed(d[1])
                  /\ d[2] = LegacySid => ~store[d[1]].legacy
                  /\ ~\E q \in Procs : InSession(q, d[1], d[2])
GoneInv == IndexInv /\ JoinedInv /\ BuriedInv

(* Nothing is buried before the first request.                             *)
LEMMA GoneInit ==
  ASSUME Init
  PROVE  GoneInv
<1>1. /\ \A p \in Procs : proc[p] = Idle
      /\ \A u \in Uids : store[u].index = <<>> /\ (store[u].legacy => u = WebUser)
      /\ gone = {}
  BY DEF Init, ChatInit
<1>2. IndexInv
  BY <1>1 DEF IndexInv, Listed, ToSet
<1>3. JoinedInv
  BY <1>1, IdleFacts DEF JoinedInv, Joined
<1> QED BY <1>1, <1>2, <1>3 DEF GoneInv, BuriedInv

(* The new index of the user of a step, and that of the others.            *)
LEMMA ListedStep ==
  ASSUME BaseInv, GoneInv, NEW p \in Procs, Steps(p), NEW u \in Uids
  PROVE  /\ store'[u].legacy => store[u].legacy
         /\ \A s \in ToSet(store'[u].index) :
              \/ s \in Listed(u)
              \/ u = proc[p].uid /\ s \in NewSids(p)
         /\ LegacySid \in ToSet(store'[u].index) => ~store'[u].legacy
<1>1. store \in [Uids -> UserRecs] /\ proc[p].uid \in Uids
  BY ProcFacts DEF BaseInv, StoreTyped
<1>2. LegacySid \in Listed(u) => ~store[u].legacy
  BY DEF GoneInv, IndexInv
<1>3. CASE store' = store
  BY <1>2, <1>3 DEF Listed
<1>4. ASSUME NEW n \in UserRecs, Written(p, n), store' = [store EXCEPT ![proc[p].uid] = n]
      PROVE  /\ store'[u].legacy => store[u].legacy
             /\ \A s \in ToSet(store'[u].index) :
                  \/ s \in Listed(u)
                  \/ u = proc[p].uid /\ s \in NewSids(p)
             /\ LegacySid \in ToSet(store'[u].index) => ~store'[u].legacy
  <2>1. CASE u # proc[p].uid
    <3>1. store'[u] = store[u]
      BY <1>1, <1>4, <2>1
    <3> QED BY <1>2, <3>1 DEF Listed
  <2>2. CASE u = proc[p].uid
    <3>1. store'[u] = n /\ Mine(p) = store[u]
      BY <1>1, <1>4, <2>2 DEF Mine
    <3>2. /\ \A s \in ToSet(n.index) : s \in Listed(u) \cup NewSids(p)
          /\ n.legacy => store[u].legacy
          /\ proc[p].mig = "read" => ~n.legacy
      BY <1>4, <2>2, <3>1 DEF Written
    <3>3. ASSUME LegacySid \in ToSet(n.index), LegacySid \notin Listed(u), proc[p].mig # "read"
          PROVE  ~store[u].legacy
      <4>1. LegacySid \in NewSids(p)
        BY <3>2, <3>3
      <4>2. proc[p].step = "append" /\ proc[p].sid = LegacySid
        <5>1. LegacySid \notin {made'} \ {made}
          <6>1. made \in Nat /\ made' \in {made, made + 1}
            BY DEF BaseInv, Counted, Steps, Keeps, Makes
          <6> QED BY <6>1 DEF LegacySid
        <5> QED BY <3>3, <4>1, <5>1 DEF NewSids
      <4> QED BY <2>2, <4>2 DEF GoneInv, JoinedInv, Joined
    <3> QED BY <1>2, <2>2, <3>1, <3>2, <3>3
  <2> QED BY <2>1, <2>2
<1> QED BY <1>3, <1>4 DEF Steps, Writes

(* An index lists only sessions that were made.                            *)
LEMMA IndexStep ==
  ASSUME BaseInv, GoneInv, NEW p \in Procs, Steps(p)
  PROVE  IndexInv'
<1>1. made \in Nat /\ made' \in {made, made + 1}
  BY DEF BaseInv, Counted, Steps, Keeps, Makes
<1>2. ASSUME NEW u \in Uids
      PROVE  /\ \A s \in ToSet(store'[u].index) : s \in 0..made'
             /\ LegacySid \in ToSet(store'[u].index) => ~store'[u].legacy
             /\ store'[u].legacy => u = WebUser
  <2>1. /\ store'[u].legacy => store[u].legacy
        /\ \A s \in ToSet(store'[u].index) : s \in Listed(u) \/ s \in NewSids(p)
        /\ LegacySid \in ToSet(store'[u].index) => ~store'[u].legacy
    BY ListedStep
  <2>2. \A s \in Listed(u) : s \in 0..made'
    BY <1>1 DEF GoneInv, IndexInv
  <2>3. \A s \in NewSids(p) : s \in 0..made'
    <3>1. proc[p].step = "append" => proc[p].sid \in 0..made
      BY DEF GoneInv, JoinedInv, Joined
    <3> QED BY <1>1, <3>1 DEF NewSids, LegacySid
  <2> QED BY <2>1, <2>2, <2>3 DEF GoneInv, IndexInv
<1> QED BY <1>2 DEF IndexInv, Listed

(* Where the record of p was when its new one is at work in a session.     *)
LEMMA JoinedFrom ==
  ASSUME BaseInv, NEW p \in Procs, Steps(p), Joins(p), proc'[p].step \in Joined
  PROVE  /\ proc'[p].uid = proc[p].uid /\ proc'[p].op = proc[p].op /\ proc[p].op # "none"
         /\ IF proc[p].step \in Joined THEN proc'[p].sid = proc[p].sid
            ELSE \/ proc'[p].sid \in Listed(proc[p].uid)
                 \/ proc[p].step = "create" /\ proc'[p].sid = made + 1 /\ made' = made + 1
<1>1. PICK r \in ProcRecs :
        /\ Becomes(p, r) /\ Placed(r)
        /\ Arrives(p, r) \/ (Leaves(p) /\ r = Ended(proc[p])) \/ Lingers(p, r) \/ Moves(p, r)
  BY AfterStep
<1>2. proc'[p] = r /\ r.step \in Joined /\ Placed(proc[p])
  BY <1>1, ProcFacts DEF Becomes, BaseInv, ProcInv
<1>3. Lingers(p, r) \/ Moves(p, r)
  <2>1. ~Arrives(p, r)
    BY <1>2 DEF Arrives, Joined, Placed
  <2>2. r # Ended(proc[p])
    BY <1>2 DEF Ended, Idle, Joined
  <2> QED BY <1>1, <2>1, <2>2
<1>4. CASE Lingers(p, r)
  BY <1>2, <1>4 DEF Lingers, Placed, Joined
<1>5. CASE Moves(p, r)
  <2>1. r.op = proc[p].op /\ Edge(proc[p].op, proc[p].step, r.step)
    BY <1>5 DEF Moves
  <2>2. proc[p].step \notin {"user", "incr", "idle"}
    BY <1>2, <2>1 DEF Edge, Joined
  <2>3. r.uid = proc[p].uid /\ proc[p].op # "none"
    BY <1>2, <1>5, <2>2 DEF Moves, UidMoves, Placed
  <2>4. proc[p].step \in Joined => r.sid = proc[p].sid
    BY <1>5 DEF Moves, SidMoves, Joined
  <2> QED BY <1>2, <2>1, <2>3, <2>4 DEF Joins
<1> QED BY <1>3, <1>4, <1>5

(* Where it was when its migration has read the legacy conversation.       *)
LEMMA ReadFrom ==
  ASSUME BaseInv, NEW p \in Procs, Steps(p), proc'[p].mig = "read"
  PROVE  /\ proc'[p].uid = proc[p].uid
         /\ proc[p].mig = "read" \/ NeedsMigration(proc[p].uid)
<1>1. PICK r \in ProcRecs :
        /\ Becomes(p, r) /\ Placed(r)
        /\ Arrives(p, r) \/ (Leaves(p) /\ r = Ended(proc[p])) \/ Lingers(p, r) \/ Moves(p, r)
  BY AfterStep
<1>2. proc'[p] = r /\ r.mig = "read" /\ Placed(proc[p])
  BY <1>1, ProcFacts DEF Becomes, BaseInv, ProcInv
<1>3. Lingers(p, r) \/ Moves(p, r)
  <2>1. ~Arrives(p, r)
    BY <1>2 DEF Arrives
  <2>2. r # Ended(proc[p])
    BY <1>2 DEF Ended, Idle
  <2> QED BY <1>1, <2>1, <2>2
<1>4. CASE Lingers(p, r)
  BY <1>2, <1>4 DEF Lingers
<1>5. CASE Moves(p, r)
  <2>1. proc[p].mig = "read"
    BY <1>2, <1>5 DEF Moves
  <2>2. proc[p].step \in StoreSteps
    BY <1>2, <2>1 DEF Placed
  <2> QED BY <1>2, <1>5, <2>1, <2>2 DEF Moves, UidMoves, StoreSteps
<1> QED BY <1>3, <1>4, <1>5

(* Whoever works in a session works in one that was made.                  *)
LEMMA JoinedStep ==
  ASSUME BaseInv, GoneInv, NEW p \in Procs, Steps(p), Joins(p)
  PROVE  JoinedInv'
<1>1. made \in Nat /\ made' \in {made, made + 1}
  BY DEF BaseInv, Counted, Steps, Keeps, Makes
<1>2. proc \in [Procs -> ProcRecs] /\ \A q \in Procs : q # p => proc'[q] = proc[q]
  BY AfterStep DEF BaseInv, ProcInv, Becomes
<1>3. \A q \in Procs : proc[q].uid \in Uids
  BY ProcFacts
<1>4. \A u \in Uids : /\ store'[u].legacy => store[u].legacy
                      /\ store[u].legacy => u = WebUser
                      /\ LegacySid \in Listed(u) => ~store[u].legacy
                      /\ \A s \in Listed(u) : s \in 0..made
  BY ListedStep DEF GoneInv, IndexInv
<1>5. ASSUME NEW q \in Procs, q # p
      PROVE  /\ proc'[q].step \in Joined =>
                  proc'[q].sid \in 0..made' /\ (proc'[q].sid = LegacySid => ~store'[proc'[q].uid].legacy)
             /\ proc'[q].mig = "read" => proc'[q].uid = WebUser
  BY <1>1, <1>2, <1>3, <1>4, <1>5 DEF GoneInv, JoinedInv
<1>6. ASSUME proc'[p].step \in Joined
      PROVE  proc'[p].sid \in 0..made' /\ (proc'[p].sid = LegacySid => ~store'[proc'[p].uid].legacy)
  <2>1. /\ proc'[p].uid = proc[p].uid
        /\ IF proc[p].step \in Joined THEN proc'[p].sid = proc[p].sid
           ELSE \/ proc'[p].sid \in Listed(proc[p].uid)
                \/ proc[p].step = "create" /\ proc'[p].sid = made + 1 /\ made' = made + 1
    BY <1>6, JoinedFrom
  <2>2. proc[p].step \in Joined =>
          proc[p].sid \in 0..made /\ (proc[p].sid = LegacySid => ~store[proc[p].uid].legacy)
    BY DEF GoneInv, JoinedInv
  <2>3. made + 1 # LegacySid
    BY <1>1 DEF LegacySid
  <2> QED BY <1>1, <1>3, <1>4, <2>1, <2>2, <2>3
<1>7. ASSUME proc'[p].mig = "read"
      PROVE  proc'[p].uid = WebUser
  BY <1>3, <1>4, <1>7, ReadFrom DEF NeedsMigration, GoneInv, JoinedInv
<1>8. \A q \in Procs :
        /\ proc'[q].step \in Joined =>
             proc'[q].sid \in 0..made' /\ (proc'[q].sid = LegacySid => ~store'[proc'[q].uid].legacy)
        /\ proc'[q].mig = "read" => proc'[q].uid = WebUser
  BY <1>5, <1>6, <1>7
<1> QED BY <1>8 DEF JoinedInv

(* Nobody comes to work in a session that has been deleted.                *)
LEMMA NobodyJoins ==
  ASSUME BaseInv, GoneInv, NEW p \in Procs, Steps(p), Joins(p), NEW d \in gone, NEW q \in Procs,
         InSession(q, d[1], d[2])'
  PROVE  FALSE
<1>1. /\ d[1] = WebUser /\ d[2] \in 0..made /\ d[2] \notin Listed(d[1])
      /\ d[2] = LegacySid => ~store[d[1]].legacy
      /\ ~InSession(q, d[1], d[2])
  BY DEF GoneInv, BuriedInv
<1>2. proc \in [Procs -> ProcRecs] /\ \A o \in Procs : o # p => proc'[o] = proc[o]
  BY AfterStep DEF BaseInv, ProcInv, Becomes
<1>3. /\ proc'[q].uid = d[1]
      /\ \/ proc'[q].sid = d[2] /\ proc'[q].step \in {"switch", "point", "history", "stream", "append"}
         \/ d[2] = LegacySid /\ proc'[q].mig = "read"
  BY DEF InSession
<1>4. q = p
  BY <1>1, <1>2, <1>3 DEF InSession
<1>5. CASE d[2] = LegacySid /\ proc'[q].mig = "read"
  <2>1. proc[p].uid = d[1] /\ (proc[p].mig = "read" \/ NeedsMigration(proc[p].uid))
    BY <1>3, <1>4, <1>5, ReadFrom
  <2> QED BY <1>1, <1>4, <1>5, <2>1 DEF InSession, NeedsMigration
<1>6. CASE proc'[q].sid = d[2] /\ proc'[q].step \in {"switch", "point", "history", "stream", "append"}
  <2>1. /\ proc[p].uid = d[1]
        /\ IF proc[p].step \in Joined THEN proc'[p].sid = proc[p].sid
           ELSE \/ proc'[p].sid \in Listed(proc[p].uid)
                \/ proc[p].step = "create" /\ proc'[p].sid = made + 1 /\ made' = made + 1
    BY <1>3, <1>4, <1>6, JoinedFrom DEF Joined
  <2>2. CASE proc[p].step \in Joined
    <3>1. proc[p].step = "bind"
      BY <1>1, <1>4, <1>6, <2>1, <2>2 DEF InSession, Joined
    <3>2. proc[p].uid # WebUser
      BY <3>1, ImOp, ProcFacts DEF Placed, OwnSteps
    <3> QED BY <1>1, <2>1, <3>2
  <2>3. CASE proc[p].step \notin Joined
    <3>1. made + 1 \notin 0..made
      BY DEF BaseInv, Counted
    <3> QED BY <1>1, <1>4, <1>6, <2>1, <2>3, <3>1
  <2> QED BY <2>2, <2>3
<1> QED BY <1>3, <1>5, <1>6

(* A buried session is not listed, and nobody new joins it.                *)
LEMMA BuriedStep ==
  ASSUME BaseInv, GoneInv, NEW p \in Procs, Steps(p), Joins(p)
  PROVE  BuriedInv'
<1>1. made \in Nat /\ made' \in {made, made + 1}
  BY DEF BaseInv, Counted, Steps, Keeps, Makes
<1>2. WebUser \in Uids
  BY IdleFacts
<1>3. ASSUME NEW d \in gone
      PROVE  /\ d[1] = WebUser /\ d[2] \in 0..made' /\ d[2] \notin ToSet(store'[d[1]].index)
             /\ d[2] = LegacySid => ~store'[d[1]].legacy
             /\ ~\E q \in Procs : InSession(q, d[1], d[2])'
  <2>1. /\ d[1] = WebUser /\ d[2] \in 0..made /\ d[2] \notin Listed(d[1])
        /\ d[2] = LegacySid => ~store[d[1]].legacy
        /\ ~InSession(p, d[1], d[2])
    BY DEF GoneInv, BuriedInv
  <2>2. /\ store'[d[1]].legacy => store[d[1]].legacy
        /\ \A s \in ToSet(store'[d[1]].index) :
             \/ s \in Listed(d[1])
             \/ d[1] = proc[p].uid /\ s \in NewSids(p)
    BY <1>2, <2>1, ListedStep
  <2>3. d[1] = proc[p].uid => d[2] \notin NewSids(p)
    <3>1. made' \in 0..made => made' = made
      BY <1>1
    <3> QED BY <2>1, <3>1 DEF NewSids, InSession
  <2>4. ~\E q \in Procs : InSession(q, d[1], d[2])'
    BY NobodyJoins
  <2> QED BY <1>1, <2>1, <2>2, <2>3, <2>4
<1>4. ASSUME NEW d \in gone' \ gone
      PROVE  /\ d[1] = WebUser /\ d[2] \in 0..made' /\ d[2] \notin ToSet(store'[d[1]].index)
             /\ d[2] = LegacySid => ~store'[d[1]].legacy
             /\ ~\E q \in Procs : InSession(q, d[1], d[2])'
  <2>1. /\ proc[p].step = "del" /\ d = <<proc[p].uid, proc[p].sid>>
        /\ proc[p].sid \in Listed(proc[p].uid) /\ proc[p].sid \notin ToSet(store'[proc[p].uid].index)
        /\ ~\E q \in Procs : InSession(q, proc[p].uid, proc[p].sid)
    BY <1>4 DEF Steps, Keeps, Buries
  <2>2. d[1] = proc[p].uid /\ d[2] = proc[p].sid
    BY <2>1
  <2>3. proc[p].uid = WebUser /\ proc[p].mig # "read"
    BY <2>1, ProcFacts DEF Placed, ImSteps, TurnSteps, StoreSteps
  <2>4. proc[p].sid \in 0..made /\ (proc[p].sid = LegacySid => ~store[WebUser].legacy)
    BY <1>2, <2>1, <2>3 DEF GoneInv, IndexInv
  <2>5. store'[WebUser].legacy => store[WebUser].legacy
    BY <1>2, ListedStep
  <2>6. ASSUME NEW q \in Procs, InSession(q, d[1], d[2])'
        PROVE  FALSE
    <3>1. proc \in [Procs -> ProcRecs] /\ \A o \in Procs : o # p => proc'[o] = proc[o]
      BY AfterStep DEF BaseInv, ProcInv, Becomes
    <3>2. CASE q # p
      BY <2>1, <2>2, <2>6, <3>1, <3>2 DEF InSession
    <3>3. CASE q = p
      <4>1. proc'[p].mig # "read"
        <5>1. store[proc[p].uid].index # <<>>
          BY <2>1 DEF Listed, ToSet
        <5> QED BY <2>3, <5>1, ReadFrom DEF NeedsMigration
      <4>2. proc'[p].step \in Joined
        BY <2>6, <3>3, <4>1 DEF InSession, Joined
      <4>3. FALSE
        <5>1. PICK r \in ProcRecs :
                /\ Becomes(p, r) /\ Placed(r)
                /\ Arrives(p, r) \/ (Leaves(p) /\ r = Ended(proc[p])) \/ Lingers(p, r) \/ Moves(p, r)
          BY AfterStep
        <5>2. proc'[p] = r /\ r.step \in Joined
          BY <3>1, <4>2, <5>1 DEF Becomes
        <5>3. ~Arrives(p, r) /\ r # Ended(proc[p]) /\ ~Lingers(p, r)
          BY <2>1, <5>2 DEF Arrives, Ended, Idle, Lingers, Joined
        <5> QED BY <2>1, <5>1, <5>2, <5>3 DEF Moves, Edge, Joined
      <4> QED BY <4>3
    <3> QED BY <3>2, <3>3
  <2> QED BY <1>1, <2>1, <2>2, <2>3, <2>4, <2>5, <2>6
<1> QED BY <1>3, <1>4 DEF BuriedInv, Listed

(* The three parts together are inductive.                                 *)
LEMMA GoneNext ==
  ASSUME BaseInv, GoneInv, [Next]_vars
  PROVE  GoneInv'
<1>1. CASE UNCHANGED vars
  BY <1>1 DEF vars, cvars, GoneInv, IndexInv, JoinedInv, BuriedInv, Listed, InSession
<1>2. ASSUME NEW p \in Procs, Steps(p), Joins(p)
      PROVE  GoneInv'
  BY <1>2, IndexStep, JoinedStep, BuriedStep DEF GoneInv
<1>3. ASSUME NEW u \in Uids, Expired(u)
      PROVE  GoneInv'
  <2>1. UNCHANGED <<made, proc, gone>>
    BY <1>3 DEF Expired
  <2>2. \A x \in Uids : /\ store'[x].legacy = store[x].legacy
                        /\ \A s \in ToSet(store'[x].index) : s \in Listed(x)
    <3>1. PICK n \in UserRecs : store' = [store EXCEPT ![u] = n] /\ ToSet(n.index) = {} /\ n.legacy = store[u].legacy
      BY <1>3, ExpiredStep
    <3> QED BY <3>1 DEF BaseInv, StoreTyped, Listed
  <2>3. IndexInv'
    BY <2>1, <2>2 DEF GoneInv, IndexInv, Listed
  <2>4. JoinedInv'
    <3>1. \A p \in Procs : proc[p].uid \in Uids
      BY ProcFacts
    <3> QED BY <2>1, <2>2, <3>1 DEF GoneInv, JoinedInv
  <2>5. BuriedInv'
    <3>1. \A d \in gone : d[1] \in Uids
      BY IdleFacts DEF GoneInv, BuriedInv
    <3> QED BY <2>1, <2>2, <3>1 DEF GoneInv, BuriedInv, Listed, InSession
  <2> QED BY <2>3, <2>4, <2>5 DEF GoneInv
<1>4. CASE Dies
  <2>1. /\ UNCHANGED <<store, made, gone>>
        /\ \A q \in Procs : proc'[q] = proc[q] \/ (proc'[q].step = "lost" /\ proc'[q].mig = "no")
    BY <1>4, LostFacts DEF Dies
  <2>2. IndexInv'
    BY <2>1 DEF GoneInv, IndexInv, Listed
  <2>3. JoinedInv'
    BY <2>1 DEF GoneInv, JoinedInv, Joined
  <2>4. \A q \in Procs, u \in Uids, s \in Sids : InSession(q, u, s)' => InSession(q, u, s)
    BY <2>1 DEF InSession
  <2>5. BuriedInv'
    <3>1. \A d \in gone : d[1] \in Uids /\ d[2] \in Sids
      BY IdleFacts DEF BaseInv, RestTyped
    <3> QED BY <2>1, <2>4, <3>1 DEF GoneInv, BuriedInv, Listed
  <2> QED BY <2>2, <2>3, <2>5 DEF GoneInv
<1> QED BY <1>1, <1>2, <1>3, <1>4, NextKind

(* A session deleted while no turn ran in it is never listed again: every  *)
(* call that would put a session back into the index found it there after  *)
(* the deletion, which none can, or made it.  This rests on the keys of    *)
(* the web user being apart from those of the hub, and on the migration    *)
(* clearing the legacy list that it moves.                                 *)
THEOREM DeletedStaysGoneHolds == Spec => []DeletedStaysGone
<1>1. GoneInv => DeletedStaysGone
  BY DEF GoneInv, BuriedInv, DeletedStaysGone
<1> QED BY <1>1, BaseInvariant, GoneInit, GoneNext, PTL DEF Spec

-----------------------------------------------------------------------------
(* Nobody reads the history of another.                                    *)

(* The messages kept for a user id, and the persons that have to do with   *)
(* it: whose identity it is, whose turn runs under it, whose messages they *)
(* are.                                                                    *)
Said(u) == UNION {ToSet(store[u].msgs[s]) : s \in Sids}
OwnTurn(q, u) == proc[q].op = "im" /\ proc[q].step \in OwnSteps /\ proc[q].uid = u
Owners(u) == {x \in Users : ids[x] = u} \cup {In(q).user : q \in {q \in Procs : OwnTurn(q, u)}}
             \cup {Person(m) : m \in Said(u) \ {0}} \cup (IF u = WebUser THEN {"web"} ELSE {})

OwnInv ==
  /\ \A u \in Uids : /\ \A x \in Owners(u) : u <= WebUser + seq /\ \A y \in Owners(u) : x = y
                     /\ \A m \in Said(u) : IF m = 0 THEN u = WebUser ELSE proc[m].op # "none"
  /\ \A p \in Procs : \A m \in ToSet(proc[p].hist) : m # 0 => proc[m].op # "none"
  /\ OwnHistory

(* What a sequence holds is an element of its range.                       *)
LEMMA SeqElements ==
  ASSUME NEW S, NEW q \in Seq(S), NEW x \in ToSet(q)
  PROVE  x \in S
BY ElementOfSeq, LenProperties DEF ToSet

(* Nothing is said and nobody owns an id before the first request.         *)
LEMMA OwnInit ==
  ASSUME Init
  PROVE  OwnInv
<1>1. /\ \A p \in Procs : proc[p] = Idle
      /\ \A u \in Uids, s \in Sids : store[u].msgs[s] = <<>>
      /\ \A x \in Users : ids[x] = None
      /\ seq = 0
  BY DEF Init, ChatInit
<1>2. \A u \in Uids : Said(u) = {}
  BY <1>1 DEF Said, ToSet
<1>3. \A u \in Uids, q \in Procs : ~OwnTurn(q, u)
  BY <1>1, IdleFacts DEF OwnTurn
<1>4. \A u \in Uids : \A x \in Owners(u) : u = WebUser /\ x = "web"
  <2>1. None \notin Uids
    BY Numbers DEF Uids, WebUser
  <2> QED BY <1>1, <1>2, <1>3, <2>1 DEF Owners
<1>5. \A p \in Procs : ToSet(proc[p].hist) = {}
  BY <1>1, IdleFacts DEF ToSet
<1>6. \A u \in Uids : \A x \in Owners(u) : u <= WebUser + seq /\ \A y \in Owners(u) : x = y
  <2>1. WebUser <= WebUser + seq
    BY <1>1 DEF WebUser
  <2> QED BY <1>4, <2>1
<1>7. OwnHistory
  BY <1>5 DEF OwnHistory
<1> QED BY <1>2, <1>5, <1>6, <1>7 DEF OwnInv

(* A request keeps its sender to the end.                                  *)
LEMMA PersonStays ==
  ASSUME BaseInv, NEW p \in Procs, Steps(p), NEW q \in Procs, proc[q].op # "none"
  PROVE  proc'[q].op # "none" /\ Person(q)' = Person(q)
<1>1. PICK r \in ProcRecs :
        /\ Becomes(p, r) /\ Placed(r)
        /\ Arrives(p, r) \/ (Leaves(p) /\ r = Ended(proc[p])) \/ Lingers(p, r) \/ Moves(p, r)
  BY AfterStep
<1>2. proc \in [Procs -> ProcRecs] /\ \A o \in Procs : proc'[o] = IF o = p THEN r ELSE proc[o]
  BY <1>1 DEF BaseInv, ProcInv, Becomes
<1>3. Person(q)' = IF proc'[q].op = "im" THEN Adapter(proc'[q].req).user ELSE "web"
  BY DEF Person, In
<1>4. CASE q # p
  BY <1>2, <1>3, <1>4 DEF Person, In
<1>5. CASE q = p
  <2>1. ~Arrives(p, r)
    BY <1>5, ProcFacts DEF Arrives, Placed
  <2>2. CASE Leaves(p) /\ r = Ended(proc[p])
    <3>1. CASE proc[p].op = "im"
      <4>1. r.op = "im" /\ r.req = proc[p].req
        BY <2>2, <3>1 DEF Ended, Idle
      <4> QED BY <1>2, <1>3, <1>5, <3>1, <4>1 DEF Person, In
    <3>2. CASE proc[p].op # "im"
      <4>1. r.op = "web"
        BY <2>2, <3>2 DEF Ended, Idle
      <4> QED BY <1>2, <1>3, <1>5, <3>2, <4>1 DEF Person
    <3> QED BY <3>1, <3>2
  <2>3. CASE Lingers(p, r) \/ Moves(p, r)
    <3>1. r.op = proc[p].op /\ r.req = proc[p].req
      BY <2>3 DEF Lingers, Moves
    <3> QED BY <1>2, <1>3, <1>5, <3>1 DEF Person, In
  <2> QED BY <1>1, <2>1, <2>2, <2>3
<1> QED BY <1>4, <1>5

(* Messages of a user id: the old ones, that of a turn that stores its     *)
(* exchange, and the legacy conversation for the web user.                 *)
LEMMA SaidStep ==
  ASSUME BaseInv, GoneInv, NEW p \in Procs, Steps(p), NEW u \in Uids, NEW m \in Said(u)'
  PROVE  \/ m \in Said(u)
         \/ m = 0 /\ u = WebUser
         \/ m = p /\ u = proc[p].uid /\ proc[p].step = "append"
<1>1. store \in [Uids -> UserRecs] /\ proc[p].uid \in Uids
  BY ProcFacts DEF BaseInv, StoreTyped
<1>2. PICK s \in Sids : m \in ToSet(store'[u].msgs[s])
  BY DEF Said
<1>3. ASSUME m \in ToSet(store[u].msgs[s])
      PROVE  m \in Said(u)
  BY <1>3 DEF Said
<1>4. CASE store' = store
  BY <1>2, <1>3, <1>4
<1>5. ASSUME NEW n \in UserRecs, Written(p, n), store' = [store EXCEPT ![proc[p].uid] = n]
      PROVE  \/ m \in Said(u)
             \/ m = 0 /\ u = WebUser
             \/ m = p /\ u = proc[p].uid /\ proc[p].step = "append"
  <2>1. CASE u # proc[p].uid
    <3>1. store'[u] = store[u]
      BY <1>1, <1>5, <2>1
    <3> QED BY <1>2, <1>3, <3>1
  <2>2. CASE u = proc[p].uid
    <3>1. store'[u] = n /\ Mine(p) = store[u]
      BY <1>1, <1>5, <2>2 DEF Mine
    <3>2. m \in ToSet(store[u].msgs[s]) \cup NewMsgs(p, s)
      BY <1>2, <1>5, <3>1 DEF Written
    <3>3. m \in NewMsgs(p, s) => \/ m = 0 /\ u = WebUser
                                 \/ m = p /\ proc[p].step = "append"
      BY <2>2 DEF NewMsgs, GoneInv, JoinedInv
    <3> QED BY <1>3, <2>2, <3>2, <3>3
  <2> QED BY <2>1, <2>2
<1> QED BY <1>4, <1>5 DEF Steps, Writes

(* A turn under a user id: the old ones, one that found the id, and one    *)
(* that drew it.                                                           *)
LEMMA OwnTurnStep ==
  ASSUME BaseInv, NEW p \in Procs, Steps(p), NEW u \in Uids, NEW q \in Procs, OwnTurn(q, u)'
  PROVE  /\ In(q)' = In(q) /\ In(q).user \in Users
         /\ \/ OwnTurn(q, u)
            \/ ids[In(q).user] = u
            \/ q = p /\ u = NewUid /\ seq' = seq + 1
<1>1. PICK r \in ProcRecs :
        /\ Becomes(p, r) /\ Placed(r)
        /\ Arrives(p, r) \/ (Leaves(p) /\ r = Ended(proc[p])) \/ Lingers(p, r) \/ Moves(p, r)
  BY AfterStep
<1>2. proc \in [Procs -> ProcRecs] /\ \A o \in Procs : proc'[o] = IF o = p THEN r ELSE proc[o]
  BY <1>1 DEF BaseInv, ProcInv, Becomes
<1>3. In(q)' = Adapter(proc'[q].req) /\ proc'[q].op = "im" /\ proc'[q].step \in OwnSteps /\ proc'[q].uid = u
  BY DEF In, OwnTurn
<1>4. CASE q # p
  <2>1. OwnTurn(q, u) /\ In(q)' = In(q)
    BY <1>2, <1>3, <1>4 DEF OwnTurn, In
  <2>2. In(q).user \in Users
    BY <2>1, InFacts DEF OwnTurn, OwnSteps, ImSteps, TurnSteps
  <2> QED BY <2>1, <2>2
<1>5. CASE q = p
  <2>1. proc'[q] = r
    BY <1>2, <1>5
  <2>2. ~Arrives(p, r) /\ r # Ended(proc[p])
    BY <1>3, <2>1 DEF Arrives, Ended, Idle, OwnSteps, WebOps
  <2>3. r.op = proc[p].op /\ r.req = proc[p].req
    BY <1>1, <2>2 DEF Lingers, Moves
  <2>4. proc[p].op = "im" /\ proc[p].step \in ImSteps \ {"done"}
    <3>1. proc[p].op = "im" /\ proc[p].step \in ImSteps
      BY <1>3, <2>1, <2>3, ProcFacts DEF Placed
    <3>2. proc[p].step # "done"
      BY <1>1, <1>3, <2>1, <2>2 DEF Lingers, Moves, Edge, OwnSteps
    <3> QED BY <3>1, <3>2
  <2>5. In(q)' = In(q) /\ In(q).user \in Users
    BY <1>3, <1>5, <2>1, <2>3, <2>4, InFacts DEF In
  <2>6. CASE Lingers(p, r)
    BY <1>3, <1>5, <2>1, <2>4, <2>5, <2>6 DEF Lingers, OwnTurn
  <2>7. CASE Moves(p, r)
    <3>1. UidMoves(p, r) /\ Edge(proc[p].op, proc[p].step, r.step)
      BY <2>7 DEF Moves
    <3>2. CASE proc[p].step = "incr"
      BY <1>3, <1>5, <2>1, <2>5, <3>1, <3>2 DEF UidMoves
    <3>3. CASE proc[p].step = "user"
      <4>1. r.step = "chat"
        BY <1>3, <2>1, <3>1, <3>3 DEF Edge, OwnSteps
      <4> QED BY <1>3, <1>5, <2>1, <2>5, <3>1, <3>3, <4>1 DEF UidMoves
    <3>4. CASE proc[p].step \notin {"incr", "user"}
      <4>1. r.uid = proc[p].uid
        BY <3>1, <3>4 DEF UidMoves
      <4>2. proc[p].step \in OwnSteps
        BY <1>3, <2>1, <2>4, <3>1, <3>4 DEF Edge, OwnSteps, ImSteps, TurnSteps
      <4> QED BY <1>3, <1>5, <2>1, <2>4, <2>5, <4>1, <4>2 DEF OwnTurn
    <3> QED BY <3>2, <3>3, <3>4
  <2> QED BY <1>1, <2>2, <2>6, <2>7
<1> QED BY <1>4, <1>5

(* Messages are of requests that have come.                                *)
LEMMA SaidBy ==
  ASSUME BaseInv, OwnInv, NEW u \in Uids, NEW m \in Said(u)
  PROVE  /\ m \in 0..Calls
         /\ m = 0 => u = WebUser
         /\ m # 0 => m \in Procs /\ proc[m].op # "none" /\ Person(m) \in Owners(u)
<1>1. PICK s \in Sids : m \in ToSet(store[u].msgs[s])
  BY DEF Said
<1>2. store[u].msgs[s] \in Seq(0..Calls)
  BY DEF BaseInv, StoreTyped, UserRecs
<1>3. m \in 0..Calls
  BY <1>1, <1>2, SeqElements
<1>4. IF m = 0 THEN u = WebUser ELSE proc[m].op # "none"
  BY DEF OwnInv
<1> QED BY <1>3, <1>4, Numbers DEF Procs, Owners

(* The person of a turn has to do with the user id it runs under.          *)
LEMMA TurnOwner ==
  ASSUME BaseInv, NEW p \in Procs, proc[p].step \in {"history", "append"}
  PROVE  Person(p) \in Owners(proc[p].uid) /\ proc[p].op # "none"
<1>1. proc[p].op # "none"
  BY ProcFacts DEF Placed
<1>2. CASE proc[p].op = "im"
  BY <1>1, <1>2 DEF Owners, Person, OwnTurn, OwnSteps
<1>3. CASE proc[p].op # "im"
  BY <1>1, <1>3, ProcFacts DEF Owners, Person, Placed
<1> QED BY <1>1, <1>2, <1>3

(* Only the request that draws a user id is new to it.                     *)
LEMMA OwnersStep ==
  ASSUME BaseInv, GoneInv, OwnInv, NEW p \in Procs, Steps(p), NEW u \in Uids, NEW x \in Owners(u)'
  PROVE  \/ x \in Owners(u)
         \/ u = NewUid /\ seq' = seq + 1 /\ x = In(p).user
<1>1. CASE x \in Users /\ ids'[x] = u
  <2>1. CASE ids' = ids
    BY <1>1, <2>1 DEF Owners
  <2>2. CASE proc[p].step = "set_user" /\ ids' = [ids EXCEPT ![In(p).user] = proc[p].uid]
    <3>1. CASE x = In(p).user
      <4>1. ids'[x] = proc[p].uid
        BY <1>1, <2>2, <3>1 DEF BaseInv, HubTyped
      <4>2. OwnTurn(p, u)
        BY <1>1, <2>2, <4>1, ImOp DEF OwnTurn, OwnSteps
      <4> QED BY <3>1, <4>2 DEF Owners
    <3>2. CASE x # In(p).user
      BY <1>1, <2>2, <3>2 DEF BaseInv, HubTyped, Owners
    <3> QED BY <3>1, <3>2
  <2> QED BY <2>1, <2>2 DEF Steps, HubKeys
<1>2. ASSUME NEW q \in Procs, OwnTurn(q, u)', x = In(q)'.user
      PROVE  \/ x \in Owners(u)
             \/ u = NewUid /\ seq' = seq + 1 /\ x = In(p).user
  <2>1. /\ x = In(q).user /\ In(q).user \in Users
        /\ \/ OwnTurn(q, u)
           \/ ids[In(q).user] = u
           \/ q = p /\ u = NewUid /\ seq' = seq + 1
    BY <1>2, OwnTurnStep
  <2> QED BY <2>1 DEF Owners
<1>3. ASSUME NEW m \in Said(u)', m # 0, x = Person(m)'
      PROVE  x \in Owners(u)
  <2>1. CASE m \in Said(u)
    <3>1. m \in Procs /\ proc[m].op # "none" /\ Person(m) \in Owners(u)
      BY <1>3, <2>1, SaidBy
    <3> QED BY <1>3, <3>1, PersonStays
  <2>2. CASE m = p /\ u = proc[p].uid /\ proc[p].step = "append"
    <3>1. proc[p].op # "none" /\ Person(p) \in Owners(u)
      BY <2>2, TurnOwner
    <3> QED BY <1>3, <2>2, <3>1, PersonStays
  <2> QED BY <1>3, <2>1, <2>2, SaidStep
<1>4. CASE x = "web" /\ u = WebUser
  BY <1>4 DEF Owners
<1> QED BY <1>1, <1>2, <1>3, <1>4 DEF Owners

(* The owners of a user id are one.                                        *)
LEMMA OwnersNext ==
  ASSUME BaseInv, GoneInv, OwnInv, NEW p \in Procs, Steps(p), NEW u \in Uids, NEW x \in Owners(u)'
  PROVE  u <= WebUser + seq' /\ \A y \in Owners(u)' : x = y
<1>1. seq \in Nat /\ (seq' = seq \/ seq' = seq + 1)
  BY DEF BaseInv, Counted, Steps, HubKeys
<1>2. u \in Nat
  BY Numbers DEF Uids, WebUser
<1>3. ASSUME x \in Owners(u)
      PROVE  u <= WebUser + seq /\ u # NewUid
  <2>1. u <= WebUser + seq
    BY <1>3 DEF OwnInv
  <2> QED BY <1>1, <1>2, <2>1 DEF NewUid, WebUser
<1>4. CASE x \in Owners(u)
  <2>1. \A y \in Owners(u)' : y \in Owners(u)
    BY <1>3, <1>4, OwnersStep
  <2>2. \A y \in Owners(u) : x = y
    BY <1>4 DEF OwnInv
  <2>3. u <= WebUser + seq'
    <3>1. u <= WebUser + seq
      BY <1>3, <1>4
    <3>2. /\ seq \in Nat /\ seq' \in Nat /\ seq <= seq' /\ WebUser \in Nat
      BY <1>1 DEF WebUser
    <3>3. \A a, b, c, d \in Nat : a <= d + b /\ b <= c => a <= d + c
      OBVIOUS
    <3> QED BY <1>2, <3>1, <3>2, <3>3
  <2>4. \A y \in Owners(u)' : x = y
    BY <2>1, <2>2
  <2> QED BY <2>3, <2>4
<1>5. CASE u = NewUid /\ seq' = seq + 1 /\ x = In(p).user
  <2>1. Owners(u) = {}
    BY <1>1, <1>2, <1>5 DEF OwnInv, NewUid, WebUser
  <2>2. \A y \in Owners(u)' : y = In(p).user
    BY <2>1, OwnersStep
  <2> QED BY <1>1, <1>5, <2>2 DEF NewUid, WebUser
<1> QED BY <1>4, <1>5, OwnersStep

(* What a turn has read is of its own person.                              *)
LEMMA ReadOwn ==
  ASSUME BaseInv, OwnInv, NEW p \in Procs, proc[p].step = "history",
         NEW m \in ToSet(Suffix(Mine(p).msgs[proc[p].sid]))
  PROVE  /\ Person(p) = IF m = 0 THEN "web" ELSE Person(m)
         /\ m # 0 => m \in Procs /\ proc[m].op # "none"
<1>1. proc[p].uid \in Uids /\ proc[p].sid \in Sids /\ Mine(p).msgs[proc[p].sid] \in Seq(0..Calls)
  BY ProcFacts DEF Placed, SidSteps
<1>2. m \in Said(proc[p].uid)
  <2>1. m \in ToSet(Mine(p).msgs[proc[p].sid])
    BY <1>1, SuffixFacts
  <2> QED BY <1>1, <2>1 DEF Said, Mine
<1>3. Person(p) \in Owners(proc[p].uid)
  BY TurnOwner
<1>4. CASE m = 0
  <2>1. proc[p].uid = WebUser
    BY <1>1, <1>2, <1>4, SaidBy
  <2>2. proc[p].op # "im"
    BY <2>1, ProcFacts DEF Placed, OwnSteps
  <2> QED BY <1>4, <2>2 DEF Person
<1>5. CASE m # 0
  <2>1. m \in Procs /\ proc[m].op # "none" /\ Person(m) \in Owners(proc[p].uid)
    BY <1>1, <1>2, <1>5, SaidBy
  <2> QED BY <1>1, <1>3, <1>5, <2>1 DEF OwnInv
<1> QED BY <1>4, <1>5

(* What is said under an id was said by the one who owns it.               *)
LEMMA OwnStep ==
  ASSUME BaseInv, GoneInv, OwnInv, NEW p \in Procs, Steps(p)
  PROVE  OwnInv'
<1>1. ASSUME NEW u \in Uids, NEW m \in Said(u)'
      PROVE  IF m = 0 THEN u = WebUser ELSE proc'[m].op # "none"
  <2>1. CASE m \in Said(u)
    BY <2>1, SaidBy, PersonStays
  <2>2. CASE m = p /\ u = proc[p].uid /\ proc[p].step = "append"
    <3>1. proc'[p].op # "none" /\ m # 0
      BY <2>2, TurnOwner, PersonStays, Numbers DEF Procs
    <3> QED BY <2>2, <3>1
  <2>3. CASE m = 0 /\ u = WebUser
    BY <2>3
  <2> QED BY <1>1, <2>1, <2>2, <2>3, SaidStep
<1>2. PICK r \in ProcRecs :
        /\ Becomes(p, r) /\ Placed(r)
        /\ Arrives(p, r) \/ (Leaves(p) /\ r = Ended(proc[p])) \/ Lingers(p, r) \/ Moves(p, r)
  BY AfterStep
<1>3. proc \in [Procs -> ProcRecs] /\ \A o \in Procs : proc'[o] = IF o = p THEN r ELSE proc[o]
  BY <1>2 DEF BaseInv, ProcInv, Becomes
<1>4. ASSUME NEW q \in Procs, NEW m \in ToSet(proc[q].hist)
      PROVE  /\ proc[q].op # "none" => Person(q)' = IF m = 0 THEN "web" ELSE Person(m)'
             /\ m # 0 => proc'[m].op # "none"
  <2>1. Person(q) = IF m = 0 THEN "web" ELSE Person(m)
    BY DEF OwnInv, OwnHistory
  <2>2. m # 0 => m \in Procs /\ proc[m].op # "none"
    <3>1. m \in 0..Calls
      BY ProcFacts, SeqElements
    <3> QED BY <3>1, Numbers DEF OwnInv, Procs
  <2> QED BY <2>1, <2>2, PersonStays
<1>5. ASSUME NEW q \in Procs, NEW m \in ToSet(proc'[q].hist)
      PROVE  /\ Person(q)' = IF m = 0 THEN "web" ELSE Person(m)'
             /\ m # 0 => proc'[m].op # "none"
  <2>1. ASSUME m \in ToSet(proc[q].hist), proc[q].op # "none"
        PROVE  /\ Person(q)' = IF m = 0 THEN "web" ELSE Person(m)'
               /\ m # 0 => proc'[m].op # "none"
    BY <1>4, <2>1
  <2>2. CASE q # p
    <3>1. proc'[q] = proc[q]
      BY <1>3, <2>2
    <3>2. CASE proc[q].op # "none"
      BY <1>5, <2>1, <3>1, <3>2
    <3>3. CASE proc[q].op = "none"
      <4>1. Person(q)' = "web" /\ Person(q) = "web"
        BY <3>1, <3>3 DEF Person
      <4>2. CASE m = 0
        BY <4>1, <4>2
      <4>3. CASE m # 0
        <5>1. m \in Procs /\ proc[m].op # "none"
          <6>1. m \in 0..Calls
            BY <1>5, <3>1, ProcFacts, SeqElements
          <6> QED BY <1>5, <3>1, <4>3, <6>1, Numbers DEF OwnInv, Procs
        <5>2. Person(m) = "web"
          BY <1>5, <3>1, <4>1, <4>3 DEF OwnInv, OwnHistory
        <5> QED BY <4>1, <4>3, <5>1, <5>2, PersonStays
      <4> QED BY <4>2, <4>3
    <3> QED BY <3>2, <3>3
  <2>3. CASE q = p
    <3>1. proc'[p] = r /\ m \in ToSet(r.hist)
      BY <1>3, <1>5, <2>3
    <3>2. r.hist # <<>>
      BY <3>1 DEF ToSet
    <3>3. ~Arrives(p, r) /\ r # Ended(proc[p])
      BY <3>2, IdleFacts DEF Arrives, Ended, Idle
    <3>4. CASE Lingers(p, r) \/ (Moves(p, r) /\ r.hist = proc[p].hist)
      <4>1. m \in ToSet(proc[p].hist) /\ r.op = proc[p].op
        BY <3>1, <3>4 DEF Lingers, Moves
      <4>2. CASE proc[p].op # "none"
        BY <2>1, <2>3, <4>1, <4>2
      <4>3. CASE proc[p].op = "none"
        <5>1. proc[p].step = "idle"
          BY <4>3, ProcFacts DEF Placed
        <5>2. ~Moves(p, r)
          BY <5>1 DEF Moves, Edge
        <5>3. Person(p)' = "web" /\ Person(p) = "web"
          BY <3>1, <4>1, <4>3 DEF Person
        <5>4. CASE m = 0
          BY <2>3, <5>3, <5>4
        <5>5. CASE m # 0
          <6>1. m \in Procs /\ proc[m].op # "none"
            <7>1. m \in 0..Calls
              BY <4>1, ProcFacts, SeqElements
            <7> QED BY <4>1, <5>5, <7>1, Numbers DEF OwnInv, Procs
          <6>2. Person(m) = "web"
            BY <4>1, <5>3, <5>5 DEF OwnInv, OwnHistory
          <6> QED BY <2>3, <5>3, <5>5, <6>1, <6>2, PersonStays
        <5> QED BY <5>4, <5>5
      <4> QED BY <4>2, <4>3
    <3>5. CASE Moves(p, r) /\ proc[p].step = "history" /\ r.hist = Suffix(Mine(p).msgs[proc[p].sid])
      <4>1. /\ Person(p) = IF m = 0 THEN "web" ELSE Person(m)
            /\ m # 0 => m \in Procs /\ proc[m].op # "none"
        BY <3>1, <3>5, ReadOwn
      <4>2. proc[p].op # "none"
        BY <3>5, TurnOwner
      <4> QED BY <2>3, <4>1, <4>2, PersonStays
    <3> QED BY <1>2, <3>3, <3>4, <3>5 DEF Moves, HistMoves
  <2> QED BY <2>2, <2>3
<1>6. \A u \in Uids : \A x \in Owners(u)' : u <= WebUser + seq' /\ \A y \in Owners(u)' : x = y
  BY OwnersNext
<1>7. OwnHistory'
  BY <1>5 DEF OwnHistory
<1> QED BY <1>1, <1>5, <1>6, <1>7 DEF OwnInv

(* A step that says nothing and moves no id changes no owner.              *)
LEMMA OwnKept ==
  ASSUME BaseInv, OwnInv, UNCHANGED <<proc, ids, seq>>,
         \A x \in Uids : \A m \in Said(x)' : m \in Said(x)
  PROVE  OwnInv'
<1>1. \A q \in Procs : Person(q)' = Person(q) /\ In(q)' = In(q)
  BY DEF Person, In
<1>2. \A x \in Uids : \A o \in Owners(x)' : o \in Owners(x)
  <2>1. ASSUME NEW x \in Uids, NEW m \in Said(x)', m # 0
        PROVE  Person(m)' \in Owners(x)
    <3>1. m \in Said(x) /\ m \in Procs
      BY <2>1, SaidBy
    <3> QED BY <1>1, <2>1, <3>1 DEF Owners
  <2>2. \A x \in Uids, q \in Procs : OwnTurn(q, x)' = OwnTurn(q, x)
    BY DEF OwnTurn
  <2> QED BY <1>1, <2>1, <2>2 DEF Owners
<1>3. \A x \in Uids : /\ \A o \in Owners(x)' : x <= WebUser + seq' /\ \A y \in Owners(x)' : o = y
                      /\ \A m \in Said(x)' : IF m = 0 THEN x = WebUser ELSE proc'[m].op # "none"
  BY <1>2 DEF OwnInv
<1>4. \A p \in Procs : \A m \in ToSet(proc'[p].hist) : m # 0 => proc'[m].op # "none"
  BY DEF OwnInv
<1>5. OwnHistory'
  BY DEF OwnInv, OwnHistory, Person, In
<1> QED BY <1>3, <1>4, <1>5 DEF OwnInv

(* Nor does the end of the server: every call keeps its sender, and the    *)
(* histories in hand are gone.                                             *)
LEMMA OwnDies ==
  ASSUME BaseInv, OwnInv, Dies
  PROVE  OwnInv'
<1>0. /\ UNCHANGED <<store, ids, seq>>
      /\ \A q \in Procs :
           \/ proc'[q] = proc[q]
           \/ /\ proc'[q].step = "lost" /\ proc'[q].req = proc[q].req /\ proc[q].op # "none"
              /\ proc'[q].op = (IF proc[q].op = "im" THEN "im" ELSE "web") /\ proc'[q].hist = <<>>
  BY LostFacts DEF Dies, hvars
<1>1. \A q \in Procs : Person(q)' = Person(q) /\ (proc[q].op # "none" => proc'[q].op # "none")
  BY <1>0 DEF Person, In
<1>2. \A q \in Procs, x \in Uids : OwnTurn(q, x)' => OwnTurn(q, x) /\ In(q)' = In(q)
  BY <1>0 DEF OwnTurn, OwnSteps, In
<1>3. \A x \in Uids : Said(x)' = Said(x)
  BY <1>0 DEF Said
<1>4. \A x \in Uids : \A o \in Owners(x)' : o \in Owners(x)
  <2>1. ASSUME NEW x \in Uids, NEW m \in Said(x), m # 0
        PROVE  Person(m)' \in Owners(x)
    <3>1. m \in Procs
      BY <2>1, SaidBy
    <3> QED BY <1>1, <2>1, <3>1 DEF Owners
  <2> QED BY <1>0, <1>2, <1>3, <2>1 DEF Owners
<1>5. \A x \in Uids : /\ \A o \in Owners(x)' : x <= WebUser + seq' /\ \A y \in Owners(x)' : o = y
                      /\ \A m \in Said(x)' : IF m = 0 THEN x = WebUser ELSE proc'[m].op # "none"
  <2>1. \A x \in Uids : \A m \in Said(x) : m # 0 => m \in Procs
    BY SaidBy
  <2> QED BY <1>0, <1>1, <1>3, <1>4, <2>1 DEF OwnInv
<1>6. ASSUME NEW p \in Procs, NEW m \in ToSet(proc'[p].hist)
      PROVE  /\ m \in ToSet(proc[p].hist)
             /\ m # 0 => m \in Procs
  <2>1. ToSet(<<>>) = {}
    BY DEF ToSet
  <2>2. proc'[p].hist = proc[p].hist
    BY <1>0, <1>6, <2>1
  <2>3. m \in 0..Calls
    BY <1>6, <2>2, ProcFacts, SeqElements
  <2> QED BY <1>6, <2>2, <2>3, Numbers DEF Procs
<1>7. \A p \in Procs : \A m \in ToSet(proc'[p].hist) : m # 0 => proc'[m].op # "none"
  BY <1>1, <1>6 DEF OwnInv
<1>8. OwnHistory'
  BY <1>1, <1>6 DEF OwnInv, OwnHistory
<1> QED BY <1>5, <1>7, <1>8 DEF OwnInv

(* So the ownership of histories is inductive.                             *)
LEMMA OwnNext ==
  ASSUME BaseInv, GoneInv, OwnInv, [Next]_vars
  PROVE  OwnInv'
<1>1. CASE UNCHANGED vars
  <2>1. UNCHANGED <<proc, ids, seq, store>>
    BY <1>1 DEF vars, cvars, hvars
  <2>2. \A x \in Uids : \A m \in Said(x)' : m \in Said(x)
    BY <2>1 DEF Said
  <2> QED BY <2>1, <2>2, OwnKept
<1>2. ASSUME NEW u \in Uids, Expired(u)
      PROVE  OwnInv'
  <2>1. UNCHANGED <<proc, ids, seq>>
    BY <1>2 DEF Expired, hvars
  <2>2. \A x \in Uids : \A m \in Said(x)' : m \in Said(x)
    <3>1. PICK n \in UserRecs : /\ store' = [store EXCEPT ![u] = n]
                                /\ \A s \in Sids : ToSet(n.msgs[s]) \in SUBSET ToSet(store[u].msgs[s])
      BY <1>2, ExpiredStep
    <3>2. \A x \in Uids, s \in Sids : \A m \in ToSet(store'[x].msgs[s]) : m \in ToSet(store[x].msgs[s])
      BY <3>1 DEF BaseInv, StoreTyped
    <3> QED BY <3>2 DEF Said
  <2> QED BY <2>1, <2>2, OwnKept
<1> QED BY <1>1, <1>2, OwnStep, OwnDies, NextKind

(* The history a turn sends to the agent is its sender's own, whatever     *)
(* GETs and SETs of the identity failed: every user id has one owner, the  *)
(* sender for whom it was drawn, and all the messages kept under it are    *)
(* his.                                                                    *)
THEOREM OwnHistoryHolds == Spec => []OwnHistory
<1>1. OwnInv => OwnHistory
  BY DEF OwnInv
<1> QED BY <1>1, BaseInvariant, GoneInit, GoneNext, OwnInit, OwnNext, PTL DEF Spec

-----------------------------------------------------------------------------
(* TurnRecordFaithful.                                                     *)

(* Only the end of a stream says anything of turn records.                 *)
LEMMA MisreadStep ==
  ASSUME [Next]_vars
  PROVE  misread' = misread \/ \E p \in Procs : AgentStreams(p)
<1>1. CASE UNCHANGED vars
  BY <1>1 DEF vars, cvars
<1>2. ASSUME NEW p \in Procs, HubStep(p)
      PROVE  misread' = misread
  BY <1>2 DEF HubStep, MarkEventProcessed, SlotOrBusy, GetUser, IncrUserSeq, SetUser, GetChat, BindChat,
              Reply, Send, ReadOnly, Rest
<1>3. ASSUME NEW p \in Procs, NEW r \in Requests[p], Webhook(p, r)
      PROVE  misread' = misread
  BY <1>3 DEF Webhook
<1>4. ASSUME NEW u \in Uids, IndexExpires(u)
      PROVE  misread' = misread
  BY <1>4 DEF IndexExpires
<1>5. ASSUME NEW p \in Procs, Deadline(p) \/ AgentFails(p) \/ PreviewPanics(p)
      PROVE  misread' = misread
  BY <1>5 DEF Deadline, AgentFails, PreviewPanics, ReadOnly, Rest
<1>6. ASSUME NEW p \in Procs, ChatStep(p)
      PROVE  misread' = misread
  <2>1. CASE MigrateReads(p) \/ MigratePipe(p)
    BY <2>1 DEF MigrateReads, MigratePipe, Rest
  <2>2. CASE \/ GetCurrentSessionID(p) \/ SessionExists(p) \/ SetCurrentSession(p) \/ CountSessions(p)
             \/ NewestSession(p) \/ ListSessions(p) \/ ListMessages(p) \/ ReadsCurrent(p) \/ Reselect(p)
    <3>1. GetCurrentSessionID(p) \/ SetCurrentSession(p) => ReadOnly
      BY DEF GetCurrentSessionID, SetCurrentSession
    <3>2. SessionExists(p) => ReadOnly
      BY DEF SessionExists
    <3>3. CountSessions(p) \/ NewestSession(p) => ReadOnly
      BY DEF CountSessions, NewestSession
    <3>4. ListSessions(p) => ReadOnly
      BY DEF ListSessions
    <3>5. ListMessages(p) => ReadOnly
      BY DEF ListMessages
    <3>6. ReadsCurrent(p) => ReadOnly
      BY DEF ReadsCurrent
    <3>7. Reselect(p) => ReadOnly
      BY DEF Reselect
    <3> QED BY <2>2, <3>1, <3>2, <3>3, <3>4, <3>5, <3>6, <3>7 DEF ReadOnly, Rest
  <2>3. CASE PointAt(p) \/ CreateSession(p) \/ AppendMessages(p) \/ Repoint(p)
    <3>1. Rest
      BY <2>3 DEF PointAt, CreateSession, AppendMessages, Repoint
    <3> QED BY <3>1 DEF Rest
  <2>4. CASE DeleteSession(p)
    <3>1. UNCHANGED <<made, misread, expiries>>
      BY <2>4 DEF DeleteSession
    <3> QED BY <3>1
  <2> QED BY <1>6, <2>1, <2>2, <2>3, <2>4 DEF ChatStep
<1>7. ASSUME NEW p \in Procs,
             \/ \E s \in 0..made \cup {None} :
                  \/ ChatProxy(p, s) \/ HistoryProxy(p, s) \/ ClearChatHistory(p, s)
                  \/ DeleteAgentSession(p, s)
             \/ ChatRefused(p) \/ SessionsList(p) \/ CreateAgentSession(p)
      PROVE  misread' = misread
  <2>1. ChatRefused(p) \/ \E op, s : WebRequest(p, op, s)
    BY <1>7 DEF ChatProxy, HistoryProxy, ClearChatHistory, DeleteAgentSession, SessionsList,
                CreateAgentSession
  <2>2. ChatRefused(p) => Rest
    BY DEF ChatRefused
  <2>3. \A op, s : WebRequest(p, op, s) => Rest
    BY DEF WebRequest
  <2> QED BY <2>1, <2>2, <2>3 DEF Rest
<1> QED BY <1>1, <1>2, <1>3, <1>4, <1>5, <1>6, <1>7 DEF Next, ChatNext

(* At the end of a stream, however the turn ends, the record is faithful,  *)
(* and no exchange is stored of which it says error.                       *)
LEMMA StreamRead ==
  ASSUME Registry, NEW p \in Procs, AgentStreams(p), TurnRecordFaithful
  PROVE  TurnRecordFaithful'
<1>1. PICK o \in Outcomes, broken \in BOOLEAN :
        LET streamErr == o.st.streamErr \/ broken
        IN  misread' = (misread \/ ~o.faithful
                        \/ (/\ Persists(o.st, streamErr, proc[p].canceled)
                            /\ Finalize(o.st, FALSE, streamErr, proc[p].canceled).status = "error"))
  BY DEF AgentStreams
<1>2. o.faithful /\ (o.st.sawError => o.st.streamErr)
  BY OutcomesFaithful
<1>3. ASSUME Persists(o.st, o.st.streamErr \/ broken, proc[p].canceled)
      PROVE  Finalize(o.st, FALSE, o.st.streamErr \/ broken, proc[p].canceled).status # "error"
  <2>1. ~o.st.streamErr /\ ~broken /\ ~proc[p].canceled
    BY <1>3 DEF Persists
  <2>2. Finalize(o.st, FALSE, o.st.streamErr \/ broken, proc[p].canceled).status \in {"aborted", "ok"}
    BY <1>2, <2>1 DEF Finalize
  <2> QED BY <2>2
<1> QED BY <1>1, <1>2, <1>3 DEF TurnRecordFaithful

(* The record that TurnAggregator makes of a stream is faithful to it      *)
(* where there is one: only a text on which the preview panics leaves      *)
(* none.  And no exchange is stored of which it says error, provided that  *)
(* the tools registry was loaded.                                          *)
THEOREM TurnRecordFaithfulHolds == ASSUME Registry PROVE Spec => []TurnRecordFaithful
<1>1. Init => TurnRecordFaithful
  BY DEF Init, ChatInit, TurnRecordFaithful
<1>2. TurnRecordFaithful /\ [Next]_vars => TurnRecordFaithful'
  BY MisreadStep, StreamRead DEF TurnRecordFaithful
<1> QED BY <1>1, <1>2, PTL DEF Spec

-----------------------------------------------------------------------------
(* Requests take finitely many steps.                                      *)

(* How far a step is from the end of its request, along the edges.         *)
Rank(op, step) ==
  CASE step = "idle" -> 28      [] step = "mark" -> 27     [] step = "slot" -> 26
    [] step = "user" -> 25      [] step = "incr" -> 24     [] step = "set_user" -> 23
    [] step = "chat" -> 22      [] step = "bound" -> 21    [] step = "sessions" -> 21
    [] step = "current" -> IF op = "list" THEN 1 ELSE 20
    [] step = "exists" -> 19    [] step = "card" -> 18     [] step = "top" -> 17
    [] step = "known" -> 17     [] step = "create" -> 16   [] step = "switch" -> 15
    [] step = "point" -> 14     [] step = "bind" -> 13     [] step = "history" -> 12
    [] step = "stream" -> 11    [] step = "append" -> 10   [] step = "del_read" -> 9
    [] step = "del" -> 8        [] step = "reselect" -> 7  [] step = "repoint" -> 6
    [] step = "relist" -> 5     [] step = "reply" -> 4     [] step = "send" -> 3
    [] step = "hint" -> 2       [] step \in {"done", "lost"} -> 0

(* What may still happen before the request leaves the step: the migration *)
(* of a legacy list in two commands, and the end of its context.           *)
Pauses(r) == (IF r.mig = "no" THEN 4 ELSE IF r.mig = "read" THEN 2 ELSE 0) + IF r.canceled THEN 0 ELSE 1
StepsLeft(r) == 6 * Rank(r.op, r.step) + Pauses(r)
MaxSteps == 6 * 28 + 5

(* A rank is one of 29 numbers.                                            *)
LEMMA RankFacts ==
  ASSUME NEW op, NEW step \in AllSteps
  PROVE  Rank(op, step) \in 0..28
BY DEF Rank, AllSteps, WebSteps, ImSteps, TurnSteps

(* So what is left of a request is a number of steps, at most MaxSteps.    *)
LEMMA StepsLeftFacts ==
  ASSUME NEW r \in ProcRecs
  PROVE  /\ Pauses(r) \in 0..5 /\ Rank(r.op, r.step) \in 0..28
         /\ StepsLeft(r) \in 0..MaxSteps
<1>1. r.mig \in {"no", "read", "done"} /\ r.canceled \in BOOLEAN /\ r.step \in AllSteps
  BY DEF ProcRecs
<1>2. Pauses(r) \in 0..5
  BY <1>1 DEF Pauses
<1>3. Rank(r.op, r.step) \in 0..28
  BY <1>1, RankFacts
<1> QED BY <1>2, <1>3 DEF StepsLeft, MaxSteps

(* Every edge leads nearer to the end.                                     *)
LEMMA EdgeDown ==
  ASSUME NEW op, NEW s \in AllSteps, NEW t \in AllSteps, Edge(op, s, t)
  PROVE  Rank(op, t) < Rank(op, s)
<1>1. CASE s \in {"mark", "slot", "user", "incr", "set_user", "chat", "bound"}
  BY <1>1 DEF Edge, Rank
<1>2. CASE s \in {"bind", "reply", "send", "hint", "current", "known", "exists"}
  BY <1>2 DEF Edge, Rank
<1>3. CASE s \in {"switch", "point", "card", "top", "create", "sessions", "relist"}
  BY <1>3 DEF Edge, Rank
<1>4. CASE s \in {"history", "stream", "del_read", "del", "reselect"}
  BY <1>4 DEF Edge, Rank
<1> QED BY <1>1, <1>2, <1>3, <1>4 DEF Edge

(* A step of one request brings it nearer to its end and leaves the others *)
(* where they are; the end of the server brings all under way nearer; an   *)
(* index expires once less.                                                *)
Advances(p) == /\ StepsLeft(proc'[p]) < StepsLeft(proc[p])
               /\ \A q \in Procs \ {p} : proc'[q] = proc[q]
               /\ expiries' = expiries
Halts == /\ \E q \in Active : TRUE
         /\ \A q \in Procs : IF q \in Active THEN StepsLeft(proc'[q]) < StepsLeft(proc[q])
                                           ELSE proc'[q] = proc[q]
         /\ expiries' = expiries
Advance == \/ \E p \in Procs : Advances(p)
           \/ Halts
           \/ proc' = proc /\ expiries < Expiries /\ expiries' = expiries + 1

(* Every kind of step of a process is such a step: it goes on along an     *)
(* edge, leaves its turn, or stays where it is and has one thing less to   *)
(* wait for.                                                               *)
LEMMA StepAdvances ==
  ASSUME BaseInv, NEW p \in Procs, Steps(p)
  PROVE  Advances(p)
<1>0. /\ proc \in [Procs -> ProcRecs] /\ proc[p] \in ProcRecs /\ Placed(proc[p])
      /\ expiries' = expiries
  BY ProcFacts DEF BaseInv, ProcInv, Steps, Keeps
<1>1. ASSUME NEW r \in ProcRecs, Becomes(p, r), StepsLeft(r) < StepsLeft(proc[p])
      PROVE  Advances(p)
  BY <1>0, <1>1 DEF Becomes, Advances
<1>2. ASSUME NEW r \in ProcRecs, Rank(r.op, r.step) < Rank(proc[p].op, proc[p].step)
      PROVE  StepsLeft(r) < StepsLeft(proc[p])
  BY <1>0, <1>2, StepsLeftFacts DEF StepsLeft
<1>3. ASSUME NEW r \in ProcRecs, Lingers(p, r)
      PROVE  Advances(p)
  <2>1. /\ Becomes(p, r) /\ r.op = proc[p].op /\ r.step = proc[p].step
        /\ \/ r.canceled = proc[p].canceled /\ <<proc[p].mig, r.mig>> \in MigEdges
           \/ ~proc[p].canceled /\ r.canceled /\ r.mig = proc[p].mig
    BY <1>3 DEF Lingers
  <2>2. Pauses(r) < Pauses(proc[p])
    <3>1. proc[p].mig \in {"no", "read", "done"}
      BY <1>0 DEF ProcRecs
    <3>2. CASE r.canceled = proc[p].canceled /\ <<proc[p].mig, r.mig>> \in MigEdges
      BY <3>2 DEF Pauses, MigEdges
    <3>3. CASE ~proc[p].canceled /\ r.canceled /\ r.mig = proc[p].mig
      BY <3>1, <3>3 DEF Pauses
    <3> QED BY <2>1, <3>2, <3>3
  <2>3. StepsLeft(r) < StepsLeft(proc[p])
    <3>1. /\ Pauses(r) \in Int /\ Pauses(proc[p]) \in Int /\ Rank(proc[p].op, proc[p].step) \in Int
          /\ Rank(r.op, r.step) = Rank(proc[p].op, proc[p].step)
      BY <1>0, <2>1, StepsLeftFacts
    <3> QED BY <2>2, <3>1 DEF StepsLeft
  <2> QED BY <1>1, <2>1, <2>3
<1>4. ASSUME NEW r \in ProcRecs, Moves(p, r)
      PROVE  Advances(p)
  <2>1. Becomes(p, r) /\ r.op = proc[p].op /\ Edge(proc[p].op, proc[p].step, r.step)
    BY <1>4 DEF Moves
  <2>2. r.step \in AllSteps /\ proc[p].step \in AllSteps
    BY <1>0 DEF ProcRecs
  <2> QED BY <1>1, <1>2, <2>1, <2>2, EdgeDown
<1>5. ASSUME NEW r \in ProcRecs, Arrives(p, r)
      PROVE  Advances(p)
  <2>1. Becomes(p, r) /\ proc[p].step = "idle"
        /\ r.step \in {"done", "lost", "sessions", "create", "known", "current", "del_read", "mark", "slot",
                       "hint"}
    BY <1>5 DEF Arrives, Placed
  <2>2. Rank(r.op, r.step) < Rank(proc[p].op, proc[p].step)
    BY <2>1 DEF Rank
  <2> QED BY <1>1, <1>2, <2>1, <2>2
<1>6. CASE Leaves(p)
  <2> DEFINE r == Ended(proc[p])
  <2>1. Becomes(p, r)
    BY <1>6 DEF Leaves
  <2>2. /\ \/ proc[p].op = "im" /\ proc[p].step \in TurnSteps \ {"reply"}
           \/ proc[p].op \in WebOps \ {"web"} /\ proc[p].step \in WebSteps
        /\ proc[p].op \in AllOps /\ proc[p].req \in AllRequests \cup {None}
    BY <1>0, <1>6 DEF Leaves, Placed, ProcRecs
  <2>3. CASE proc[p].op = "im"
    <3>1. r.op = "im" /\ r.step = "reply" /\ r \in ProcRecs
      BY <2>2, <2>3, IdleFacts DEF Ended, ProcRecs, AllOps, AllSteps, ImSteps, TurnSteps
    <3>2. proc[p].step \in TurnSteps \ {"reply"}
      BY <2>2, <2>3 DEF WebOps
    <3> HIDE DEF r
    <3>3. Rank(r.op, r.step) < Rank(proc[p].op, proc[p].step)
      BY <3>1, <3>2 DEF Rank, TurnSteps
    <3> QED BY <1>1, <1>2, <2>1, <3>1, <3>3
  <2>4. CASE proc[p].op # "im"
    <3>1. r.op = "web" /\ r.step = "done" /\ r \in ProcRecs
      BY <2>2, <2>4, IdleFacts DEF Ended, ProcRecs, AllOps, WebOps, AllSteps, ImSteps, TurnSteps
    <3>2. proc[p].step \in WebSteps
      BY <2>2, <2>4
    <3> HIDE DEF r
    <3>3. Rank(r.op, r.step) < Rank(proc[p].op, proc[p].step)
      BY <3>1, <3>2 DEF Rank, WebSteps
    <3> QED BY <1>1, <1>2, <2>1, <3>1, <3>3
  <2> QED BY <2>3, <2>4
<1> QED BY <1>3, <1>4, <1>5, <1>6 DEF Steps, Goes

(* The end of the server ends what is under way.                           *)
LEMMA DeathAdvances ==
  ASSUME BaseInv, Dies
  PROVE  Halts
<1>1. proc' \in [Procs -> ProcRecs] /\ expiries' = expiries /\ \E q \in Active : TRUE
  BY LostFacts DEF Dies, Active, Ends
<1>2. ASSUME NEW q \in Active
      PROVE  StepsLeft(proc'[q]) < StepsLeft(proc[q])
  <2>1. proc[q] \in ProcRecs /\ proc'[q] \in ProcRecs /\ proc'[q].step = "lost"
    BY <1>1, ProcFacts, LostFacts DEF Active
  <2>2. proc[q].step \in AllSteps \ Ends
    BY <2>1 DEF Active, ProcRecs
  <2>3. Rank(proc[q].op, proc[q].step) > 0
    BY <2>2 DEF Rank, AllSteps, WebSteps, ImSteps, TurnSteps, Ends
  <2>4. Rank(proc'[q].op, proc'[q].step) = 0
    BY <2>1 DEF Rank
  <2>5. /\ Pauses(proc'[q]) \in 0..5 /\ Pauses(proc[q]) \in 0..5
        /\ Rank(proc[q].op, proc[q].step) \in 0..28
    BY <2>1, StepsLeftFacts
  <2> QED BY <2>3, <2>4, <2>5 DEF StepsLeft
<1>3. \A q \in Procs \ Active : proc'[q] = proc[q]
  BY LostFacts DEF Active
<1> QED BY <1>1, <1>2, <1>3 DEF Halts

(* Nobody can hold a request up by talking: every step of the system       *)
(* brings one request nearer to its end, by a count that starts at most at *)
(* MaxSteps and that only that request's own steps change, or is the       *)
(* expiry of one more index key, or is the end of the server, which does   *)
(* so for all that are under way.  So a request takes at most MaxSteps     *)
(* steps and none that makes it start again, whatever the others and Redis *)
(* do: what TurnsEnd needs besides is that a step which can run is taken.  *)
THEOREM StepsAreBounded ==
  Spec => /\ [](\A p \in Procs : StepsLeft(proc[p]) \in 0..MaxSteps)
          /\ [][Advance]_vars
<1>1. BaseInv => \A p \in Procs : StepsLeft(proc[p]) \in 0..MaxSteps
  BY StepsLeftFacts, ProcFacts DEF BaseInv, ProcInv
<1>2. ASSUME BaseInv, [Next]_vars
      PROVE  [Advance]_vars
  <2>1. CASE UNCHANGED vars
    BY <2>1
  <2>2. ASSUME NEW p \in Procs, Steps(p)
        PROVE  Advance
    BY <1>2, <2>2, StepAdvances DEF Advance
  <2>3. ASSUME NEW u \in Uids, Expired(u)
        PROVE  Advance
    BY <2>3 DEF Expired, Advance
  <2>4. CASE Dies
    BY <1>2, <2>4, DeathAdvances DEF Advance
  <2> QED BY <1>2, <2>1, <2>2, <2>3, <2>4, NextKind
<1> QED BY <1>1, <1>2, BaseInvariant, PTL DEF Spec
=============================================================================
