----------------------------- MODULE MC_RuraSystem -----------------------------
(* TLC instances of RuraSystem: the calls of small applications. *)
EXTENDS RuraSystem, TLC

CONSTANTS s1, s2, s3, alice, bob, pw

Alice == [passphrase |-> alice, password |-> pw]
Bob   == [passphrase |-> bob, password |-> pw]

AliceOnly == <<Alice>>
Requests  == {"message", "history", "other"}
NoFlags   == {}
Limits    == {1, 7}

Logs(c, then) ==
    [auth |-> "login", then |-> then, as |-> c, to |-> 1, limit |-> 7, posts |-> 0, waits |-> {}]

\* the application of main.dart, and a user who writes to it: history, stream
Chat == s1 :> [Logs(Alice, "history") EXCEPT !.waits = {s3}]
     @@ s2 :> [Logs(Alice, "stream") EXCEPT !.waits = {s1}]
     @@ s3 :> [Logs(Bob, "stream") EXCEPT !.auth = "register", !.posts = 2]

\* a one-shot message meets the registration and the history fetch of its
\* addressee, who then sends one in turn
OneShots == s1 :> [Logs(Bob, "history") EXCEPT !.auth = "register", !.limit = 1]
         @@ s2 :> [Logs(Alice, "message") EXCEPT !.to = 2, !.posts = 1]
         @@ s3 :> [Logs(Bob, "message") EXCEPT !.posts = 1, !.waits = {s1, s2}]

\* one-shot messages to an open stream; a call that only logs in
Notes == s1 :> Logs(Alice, "stream")
      @@ s2 :> [Logs(Alice, "message") EXCEPT !.posts = 1, !.waits = {s1}]
      @@ s3 :> [Logs(Bob, "nothing") EXCEPT !.waits = {s1}]

Applications == {Chat, OneShots, Notes}

\* the application alone
HistoryThenStream == {s1 :> Logs(Alice, "history")
                   @@ s2 :> [Logs(Alice, "stream") EXCEPT !.waits = {s1}]}
=============================================================================
