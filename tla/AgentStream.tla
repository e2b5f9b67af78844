---------------------------- MODULE AgentStream ----------------------------
(***************************************************************************)
(* What RunAgentChat makes of the lines the Python agent streams: the      *)
(* reply, the error flag and the turn record.  A line is a fact frame, a   *)
(* legacy event or unreadable; texts, timings and the events shown to the  *)
(* browser are left out.                                                   *)
(***************************************************************************)
EXTENDS Integers, Sequences, FiniteSets, SequencesExt

CONSTANTS
  Tools,       \* ids of tool calls, 0 for a frame without one
  MaxFrames,   \* bound on a stream
  Registry     \* tools_registry was loaded: there is a translator

ASSUME StreamAssumption == Tools \subseteq Nat /\ MaxFrames \in Nat /\ Registry \in BOOLEAN

Frame(kinds, tools) == [kind : kinds, tool : tools]
Facts  == Frame({"delta", "done", "error", "stage"}, {0}) \cup Frame({"start", "end"}, Tools)
Legacy == Frame({"token", "failure"}, {0})
Broken == Frame({"broken"}, {0})

NewTurnAggregator ==
  [sawDone |-> FALSE, sawError |-> FALSE, pending |-> {}, tools |-> <<>>,
   text |-> FALSE, streamErr |-> FALSE, sawFact |-> FALSE]

-----------------------------------------------------------------------------
(* TurnAggregator.  A second start of a call replaces the first; an end    *)
(* without a start is listed all the same.                                 *)

observeToolStart(st, id) == [st EXCEPT !.pending = @ \cup ({id} \ {0})]

LeftPending(st, id)    == [st EXCEPT !.tools = Append(@, [id |-> id, ended |-> TRUE])]
observeToolEnd(st, id) == [st EXCEPT !.pending = @ \ {id},
                                     !.tools = Append(@, [id |-> id, ended |-> TRUE])]

observeDone(st)  == [st EXCEPT !.sawDone = TRUE]
observeError(st) == [st EXCEPT !.sawError = TRUE]

Observe(st, f) ==
  CASE f.kind = "done"  -> observeDone(st)
    [] f.kind = "error" -> observeError(st)
    [] f.kind = "start" -> observeToolStart(st, f.tool)
    [] f.kind = "end"   -> observeToolEnd(st, f.tool)
    [] OTHER            -> st

(* Calls that never ended are listed too, in any order, although the       *)
(* comment there says that they are dropped.  The preview takes the first  *)
(* 240 runes of a text of more than 240 bytes: when the text is clipped,   *)
(* with too few runes for that, Finalize panics and there is no record.    *)
NoRecord == [status |-> "panic", tools |-> <<>>]
Finalize(st, clipped, streamErr, aborted) ==
  IF st.text /\ clipped THEN NoRecord
  ELSE [status |-> IF aborted THEN "aborted"
                   ELSE IF streamErr \/ st.sawError THEN "error"
                   ELSE IF ~st.sawDone THEN "aborted" ELSE "ok",
        tools  |-> st.tools \o SetToSeq([id : st.pending, ended : {FALSE}])]

-----------------------------------------------------------------------------
Translate(st, f) ==
  [st EXCEPT !.text = @ \/ f.kind = "delta", !.streamErr = @ \/ f.kind = "error"]

LegacyEvent(st, f) ==
  [st EXCEPT !.text = @ \/ f.kind = "token", !.streamErr = @ \/ f.kind = "failure"]

(* A legacy event after a fact frame repeats it and is skipped.            *)
ProcessAgentDataPayload(st, f) ==
  CASE f \in Broken                  -> [st EXCEPT !.streamErr = TRUE]
    [] f \in Facts /\ Registry       -> Translate([st EXCEPT !.sawFact = TRUE], f)
    [] f \in Legacy /\ ~st.sawFact   -> LegacyEvent(st, f)
    [] OTHER                         -> st

Consume(fs) ==
  LET st[i \in 0..Len(fs)] ==
        IF i = 0 THEN NewTurnAggregator ELSE ProcessAgentDataPayload(Observe(st[i - 1], fs[i]), fs[i])
  IN  st[Len(fs)]

Streams == SeqOf(Facts \cup Legacy \cup Broken, MaxFrames)

(* A turn record lists each tool call once for every end, and once more    *)
(* when its last frame is a start; it says "ok" of a stream that was done  *)
(* and in which nothing that the gateway reads said error.                 *)
Faithful(fs, r) ==
  LET About(id) == {i \in DOMAIN fs : fs[i].tool = id /\ fs[i].kind \in {"start", "end"}}
      Entries(id, ended) == {i \in DOMAIN r.tools : r.tools[i] = [id |-> id, ended |-> ended]}
      Has(kind) == {i \in DOMAIN fs : fs[i].kind = kind}
      Hidden(i) == Registry /\ \E j \in 1..(i - 1) : fs[j] \in Facts
  IN  /\ \A id \in Tools :
           /\ Cardinality(Entries(id, TRUE)) = Cardinality(About(id) \cap Has("end"))
           /\ Cardinality(Entries(id, FALSE)) =
                IF id # 0 /\ About(id) # {} /\ fs[Max(About(id))].kind = "start" THEN 1 ELSE 0
      /\ r.status = "ok" <=> /\ Has("done") # {} /\ Has("error") = {} /\ Has("broken") = {}
                             /\ \A i \in Has("failure") : Hidden(i)

(* What a turn knows of its stream at the end, and, as a history, whether  *)
(* the record made of it when nothing cut it short, if any, is faithful.   *)
Outcome(fs) ==
  LET st == Consume(fs)
  IN  [st |-> [st EXCEPT !.pending = {}, !.tools = <<>>, !.sawFact = FALSE],
       faithful |-> \A clipped \in BOOLEAN :
                      LET r == Finalize(st, clipped, st.streamErr, FALSE)
                      IN  Faithful(fs, r) \/ (r = NoRecord /\ clipped)]
Outcomes == {Outcome(fs) : fs \in Streams}
=============================================================================
