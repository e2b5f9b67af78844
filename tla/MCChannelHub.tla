---------------------------- MODULE MCChannelHub ----------------------------
(* Instances of ChannelHub for TLC.                                        *)
EXTENDS ChannelHub

Request(platform, kind, user, id) ==
  [platform |-> platform, signed |-> "good", kind |-> kind, user |-> user, chat |-> "room",
   group |-> platform = "feishu", mention |-> TRUE, text |-> TRUE, id |-> id]

(* Two members of a Feishu group, one of them with a second message; in    *)
(* the first call also the other platforms, with what they treat apart.    *)
Group  == {Request("feishu", "text", "ann", 1), Request("feishu", "text", "ann", 2),
           Request("feishu", "text", "bob", 3)}
Others == {Request("wecom", "image", "ann", 4),
           [Request("slack", "text", "ann", 5) EXCEPT !.signed = "none"],
           [Request("dingtalk", "text", "", 6) EXCEPT !.chat = ""]}
First  == {r \in Group : r.id # 2}   \* of Ann's messages either may come first
MCRequests == [p \in Procs |-> IF p = 1 THEN First \cup Others ELSE Group]

MCFaulty == {<<1, "mark">>, <<2, "user">>, <<1, "set_user">>, <<2, "create">>, <<2, "del">>, <<2, "append">>}
=============================================================================
