------------------------------ MODULE MCThreadWake ------------------------------
(***************************************************************************)
(* Requests of two threads that share a system prompt: a first turn, its    *)
(* continuation, one without a stable prefix, one with tools and without an *)
(* identity, one with another history whose metadata cuts the stable prefix *)
(* before an assistant message, where the chat template's split is          *)
(* accepted, and one with an image in its history.                         *)
(***************************************************************************)
EXTENDS ThreadWake

Sys == Message("system", "s")
SysCrlf == Message("system", "s, CRLF")
User(t) == Message("user", t)
Asst(t) == Message("assistant", t)

Plain(msgs) == [tools |-> FALSE, choice |-> FALSE, msgs |-> msgs, meta |-> << >>]
Ctx(thread) == [thread |-> thread, user |-> NoValue, project |-> NoValue]

DynamicAt(i) == [index |-> i, type |-> "user", stability |-> NoValue, scope |-> "thread",
                 cacheable |-> TRUE, hash |-> NoValue]

Req(prompt, thread, scope, mode) ==
    [prompt |-> prompt, ctx |-> Ctx(thread), scope |-> scope, mode |-> mode]

MCRequests ==
    {Req(Plain(<<Sys, User("u")>>), "t1", "thread", "ephemeral"),
     Req(Plain(<<Sys, User("u"), Asst("a"), User("v")>>), "t1", "thread", "session"),
     Req(Plain(<<SysCrlf, User("w")>>), "t2", "thread", "ephemeral"),
     Req(Plain(<<User("u")>>), "t2", "thread", "ephemeral"),
     Req([Plain(<<Sys, User("w")>>) EXCEPT !.tools = TRUE, !.choice = TRUE], NoValue, "global", "ephemeral"),
     Req([Plain(<<Sys, Asst("a"), User("u")>>) EXCEPT !.meta = <<DynamicAt(2)>>],
         "t1", "request", "ephemeral"),
     Req(Plain(<<Sys, User("img"), Asst("a"), User("v")>>), "t1", "thread", "session")}

MCCanonical(text) == IF text = "s, CRLF" THEN "s" ELSE text
================================================================================
