----------------------------- MODULE ChannelHub -----------------------------
(***************************************************************************)
(* The channel hub: webhooks of four instant-messaging platforms become    *)
(* inbound messages, each is taken once, mapped to a synthetic user and to *)
(* a chat session, run as a turn of AgentChat and answered.                *)
(*                                                                         *)
(* A request is what an adapter tells apart: platform, signature, kind of  *)
(* message, sender, chat, whether it is a group chat, mentions the bot and *)
(* has any text, and the platform's id for it (0 for none).  Cryptography  *)
(* is the outcome of a check; one tenant is configured per platform.       *)
(***************************************************************************)
EXTENDS AgentChat

CONSTANTS
  Requests,   \* bound: the requests that call p may bring, of the platforms
  NoName      \* an empty sender or chat

VARIABLES
  ids,      \* Redis goblog:channel:id: synthetic user of an identity
  seq,      \* Redis uid_seq
  chats,    \* Redis goblog:channel:sess: session bound to a chat
  seen,     \* Redis goblog:channel:dedup
  unsure,   \* history: events whose mark failed
  replied   \* whether a process has tried to send a reply

hvars == <<ids, seq, chats, seen, unsure, replied>>
vars  == <<cvars, hvars>>

-----------------------------------------------------------------------------
(* The adapters.  A webhook is refused, answered at once, or an inbound    *)
(* message.                                                                *)

NoInbound == [kind |-> "none"]
Inbound(r, event, chat, kind, text, group, mention) ==
  [kind |-> kind, event |-> event, user |-> <<r.platform, r.user>>, chat |-> <<r.platform, chat>>,
   text |-> text, group |-> group, mention |-> mention]
EventID(r) == IF r.id = 0 THEN None ELSE <<r.platform, r.id>>

(* Feishu checks a signature only when there is one.                       *)
feishuVerified(r) == r.signed # "bad"
feishuParse(r) ==
  IF r.kind \in {"challenge", "note"} \/ r.user = NoName THEN NoInbound
  ELSE Inbound(r, EventID(r), r.chat, r.kind, r.kind = "text" /\ r.text, r.group, r.mention)
feishuWebhook(r) == IF feishuVerified(r) THEN feishuParse(r) ELSE NoInbound

(* Slack has texts only, without the mention; an empty one counts in groups. *)
slackParse(r) ==
  IF r.kind \in {"challenge", "note"} \/ NoName \in {r.user, r.chat} \/ (~r.text /\ ~r.group) THEN NoInbound
  ELSE Inbound(r, EventID(r), r.chat, "text", r.text, r.group, r.mention)
slackVerified(r) == r.signed = "good"
slackWebhook(r) == IF slackVerified(r) THEN slackParse(r) ELSE NoInbound

(* WeCom has no groups, and writes a missing id as "0".                    *)
wecomParse(r) ==
  IF \/ r.kind \in {"challenge", "note"} \/ r.user = NoName
     \/ IF r.kind = "text" THEN ~r.text ELSE r.id = 0
  THEN NoInbound
  ELSE Inbound(r, <<r.platform, r.id>>, r.user, r.kind, r.kind = "text", FALSE, TRUE)
wecomVerified(r) == r.signed = "good"
wecomWebhook(r) == IF wecomVerified(r) THEN wecomParse(r) ELSE NoInbound

(* DingTalk does not look at the sender.                                   *)
dingtalkParse(r) ==
  IF r.kind \in {"challenge", "note"} \/ IF r.kind = "text" THEN ~r.text ELSE r.id = 0
  THEN NoInbound
  ELSE Inbound(r, EventID(r), IF r.chat = NoName THEN r.user ELSE r.chat, r.kind, r.kind = "text",
               r.group, r.mention \/ (r.kind = "text" /\ ~r.group))
dingtalkVerified(r) == r.signed = "good"
dingtalkWebhook(r) == IF dingtalkVerified(r) THEN dingtalkParse(r) ELSE NoInbound

Adapter(r) ==
  CASE r.platform = "feishu" -> feishuWebhook(r) [] r.platform = "slack" -> slackWebhook(r)
    [] r.platform = "wecom" -> wecomWebhook(r) [] r.platform = "dingtalk" -> dingtalkWebhook(r)

ShouldProcess(in)   == ~(in.group /\ ~in.mention) /\ in.kind = "text" /\ in.text
UnsupportedHint(in) == in.kind # "text"

-----------------------------------------------------------------------------
In(p) == Adapter(proc[p].req)
Inbounds == {Adapter(r) : r \in UNION {Requests[p] : p \in Procs}} \ {NoInbound}
Users  == {i.user : i \in Inbounds}
Chats  == {i.chat : i \in Inbounds}
Events == {i.event : i \in Inbounds} \ {None}

(* Every variable of the gateway and of the hub has its type.              *)
TypeOK ==
  /\ ChatTypeOK
  /\ ids \in [Users -> Uids \cup {None}] /\ seq \in 0..Calls
  /\ chats \in [Chats -> Sids \cup {None}]
  /\ seen \subseteq Events /\ unsure \subseteq Events
  /\ replied \in [Procs -> BOOLEAN]

Init ==
  /\ ChatInit
  /\ ids = [u \in Users |-> None] /\ seq = 0
  /\ chats = [c \in Chats |-> None]
  /\ seen = {} /\ unsure = {}
  /\ replied = [p \in Procs |-> FALSE]

-----------------------------------------------------------------------------
(* HandleWebhook.                                                          *)

AfterPolicy(in) ==
  IF ShouldProcess(in) THEN "slot" ELSE IF UnsupportedHint(in) THEN "hint" ELSE "done"

Webhook(p, r) ==
  /\ CanBegin(p) /\ Without(WebOps)
  /\ LET in == Adapter(r)
         step == IF in = NoInbound THEN "done" ELSE IF in.event = None THEN AfterPolicy(in) ELSE "mark"
     IN  proc' = [proc EXCEPT ![p] = [Idle EXCEPT !.op = "im", !.req = r, !.step = step]]
  /\ UNCHANGED <<store, made, sem, misread, gone, expiries, hvars>>

Unmarked(e) == FALSE
Marked(e) == e \in seen

(* SET NX; the message is processed when the command fails.                *)
MarkEventProcessed(p) ==
  /\ At(p, "mark")
  /\ LET e == In(p).event
         next == AfterPolicy(In(p))
     IN  \/ Marked(e) /\ To(p, "done") /\ UNCHANGED <<seen, unsure>>
         \/ ~Marked(e) /\ To(p, next) /\ seen' = seen \cup {e} /\ UNCHANGED unsure
         \/ Err(p) /\ To(p, next) /\ seen' \in {seen, seen \cup {e}} /\ unsure' = unsure \cup {e}
  /\ UNCHANGED <<store, made, misread, gone, expiries, ids, seq, chats, replied>>

-----------------------------------------------------------------------------
(* processInbound: a slot, a user, a session, the turn, the reply.         *)

SlotOrBusy(p) ==
  /\ At(p, "slot")
  /\ \/ TryAcquireAgentSlot /\ proc' = [proc EXCEPT ![p].step = "user"]
     \/ sem = MaxConc /\ To(p, "send")
  /\ ReadOnly /\ UNCHANGED hvars

(* GetOrCreateSyntheticUserID takes a failed GET for an absent key.        *)
GetUser(p) ==
  /\ At(p, "user")
  /\ LET u == In(p).user
     IN  \/ u[2] = NoName /\ To(p, "end")
         \/ /\ u[2] # NoName /\ Ok(p) /\ ids[u] # None
            /\ Goto(p, [proc[p] EXCEPT !.uid = ids[u], !.step = "chat"])
         \/ u[2] # NoName /\ (Err(p) \/ ids[u] = None) /\ To(p, "incr")
  /\ ReadOnly /\ UNCHANGED hvars

Reused == WebUser + 1
NewUid == WebUser + seq + 1

IncrUserSeq(p) ==
  /\ At(p, "incr")
  /\ \/ Ok(p) /\ seq' = seq + 1 /\ Goto(p, [proc[p] EXCEPT !.uid = NewUid, !.step = "set_user"])
     \/ Err(p) /\ seq' \in {seq, seq + 1} /\ To(p, "end")
  /\ ReadOnly /\ UNCHANGED <<ids, chats, seen, unsure, replied>>

SetUser(p) ==
  /\ At(p, "set_user")
  /\ LET set == [ids EXCEPT ![In(p).user] = proc[p].uid]
     IN  \/ Ok(p) /\ ids' = set /\ To(p, "chat")
         \/ Err(p) /\ ids' \in {ids, set} /\ To(p, "end")
  /\ ReadOnly /\ UNCHANGED <<seq, chats, seen, unsure, replied>>

(* GetOrCreateChatSessionID: the session must be one of this user.         *)
GetChat(p) ==
  /\ At(p, "chat")
  /\ LET c == In(p).chat
     IN  \/ c[2] = NoName /\ To(p, "end")
         \/ /\ c[2] # NoName /\ Ok(p) /\ chats[c] # None
            /\ Goto(p, [proc[p] EXCEPT !.sid = chats[c], !.step = "bound"])
         \/ c[2] # NoName /\ (Err(p) \/ chats[c] = None) /\ To(p, "create")
  /\ ReadOnly /\ UNCHANGED hvars

BindChat(p) ==
  /\ At(p, "bind")
  /\ \/ Ok(p) /\ chats' = [chats EXCEPT ![In(p).chat] = proc[p].sid]
     \/ Err(p) /\ UNCHANGED chats
  /\ To(p, "history")
  /\ ReadOnly /\ UNCHANGED <<ids, seq, seen, unsure, replied>>

(* sendAsync, then the deferred release.                                   *)
SlotKept == sem
ReleaseAgentSlot == IF sem > 0 THEN sem - 1 ELSE sem

Reply(p) ==
  /\ At(p, "reply")
  /\ proc' = [proc EXCEPT ![p].step = "send"]
  /\ sem' = ReleaseAgentSlot
  /\ ReadOnly /\ UNCHANGED hvars

(* The platform takes every part of the text, or some part fails: no token *)
(* or address, no answer within 20s, an error code.                        *)
Send(p) ==
  /\ At(p, "send") \/ At(p, "hint")
  /\ replied' = [replied EXCEPT ![p] = TRUE]
  /\ To(p, "done")
  /\ ReadOnly /\ UNCHANGED <<ids, seq, chats, seen, unsure>>

-----------------------------------------------------------------------------
HubStep(p) ==
  \/ MarkEventProcessed(p) \/ SlotOrBusy(p) \/ GetUser(p) \/ IncrUserSeq(p) \/ SetUser(p)
  \/ GetChat(p) \/ BindChat(p) \/ Reply(p) \/ Send(p)

Next ==
  \/ ChatNext /\ UNCHANGED hvars
  \/ \E p \in Procs : HubStep(p) \/ \E r \in Requests[p] : Webhook(p, r)

Fairness == \A p \in Procs : WF_vars((Runs(p) /\ UNCHANGED hvars) \/ HubStep(p))

Spec == Init /\ [][Next]_vars /\ Fairness

-----------------------------------------------------------------------------
(* However often a platform delivers an event, it is answered once: only a *)
(* delivery whose mark failed may answer again.                            *)
RepliedOnce ==
  \A e \in Events \ unsure :
    Cardinality({p \in Procs : proc[p].op = "im" /\ In(p) # NoInbound /\ In(p).event = e /\ replied[p]}) <= 1

Person(p) == IF proc[p].op = "im" THEN In(p).user ELSE "web"

(* The history sent to the agent is the sender's own: also when members of *)
(* a group chat share its session key, and first messages and failures     *)
(* give one sender several synthetic ids, no turn reads or joins the       *)
(* conversation of another person.                                         *)
OwnHistory ==
  \A p \in Procs : \A m \in ToSet(proc[p].hist) :
    Person(p) = IF m = 0 THEN "web" ELSE Person(m)

(* Whatever the agent does, each request comes to its end: a turn gives    *)
(* its slot back, and a message taken for processing leaves with an        *)
(* attempt to answer it, the only way to "done", unless a reply whose      *)
(* preview panics has killed the server, the only way to "lost".           *)
TurnsEnd == \A p \in Procs : p \in Active ~> proc[p].step \in {"done", "lost"}
=============================================================================
