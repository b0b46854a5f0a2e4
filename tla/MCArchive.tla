------------------------------ MODULE MCArchive ------------------------------
(* Small instances of Archive: each scene sets a few writers on the same rows. *)
EXTENDS Archive

Blank == [what |-> "message", resend |-> FALSE, id |-> "a", chat |-> "pn", ts |-> 1,
          own |-> FALSE, author |-> "A", kind |-> "text", text |-> "t",
          url |-> 0, path |-> 0, key |-> 0, sha |-> 0, live |-> FALSE, seq |-> 0, meta |-> "",
          target |-> "a", timer |-> 0, timerTs |-> 0, job |-> "none", ids |-> {}]

Text(id, c, ts) == [Blank EXCEPT !.id = id, !.chat = c, !.ts = ts]
Media(id, c, ts, u) == [Text(id, c, ts) EXCEPT !.kind = "media", !.path = u, !.key = u, !.sha = u]
Stub(id, c, ts, u) == [Text(id, c, ts) EXCEPT !.kind = "media", !.text = "", !.sha = u]
UrlOnly(id, c, ts, u) == [Media(id, c, ts, u) EXCEPT !.url = u, !.path = 0]
Position(id, c, ts, n) == [Text(id, c, ts) EXCEPT !.kind = "location", !.live = TRUE, !.seq = n,
                                                  !.meta = IF n = 0 THEN "m" ELSE ""]
Poll(id, c, ts) == [Text(id, c, ts) EXCEPT !.kind = "poll"]
Revoke(c, ts, id) == [Text("z", c, ts) EXCEPT !.kind = "revoke", !.target = id]
Timer(c, ts) == [Text("z", c, ts) EXCEPT !.kind = "timer", !.timer = 7, !.timerTs = ts]
Share(c, ts) == [Text("z", c, ts) EXCEPT !.kind = "bundle", !.job = "share"]
Receipt(c, ts, ids) == [Text("z", c, ts) EXCEPT !.what = "receipt", !.ids = ids]
By(m, a) == [m EXCEPT !.author = a]

Conversation1(c, ms) == [chat |-> c, rows |-> ms, read |-> FALSE, timer |-> 0, timerTs |-> 0, ondemand |-> FALSE]

Empty == [events |-> {}, payload |-> [w \in Importers |-> <<>>], conversations |-> {}, bad |-> {},
          known |-> FALSE, learns |-> FALSE, rest |-> {}, faults |-> 0, crashes |-> 0]
WithPhone(s, cs) == [s EXCEPT !.payload["phone"] = cs, !.conversations = @ \cup Range(cs)]
WithPeer(s, cs) == [s EXCEPT !.payload["peer"] = cs, !.conversations = @ \cup Range(cs)]

\* A live message, its resend after an undecryptable delivery, and a crash.
SceneResend ==
  LET c == [Conversation1("pn", <<Text("a", "pn", 2)>>) EXCEPT !.read = TRUE, !.timer = 5, !.timerTs = 2]
  IN [WithPhone(Empty, <<c>>) EXCEPT
        !.events = {[Text("a", "pn", 2) EXCEPT !.what = "undecryptable"],
                    [Text("a", "pn", 4) EXCEPT !.resend = TRUE], Receipt("pn", 5, {"a"}),
                    Timer("pn", 3)}, !.faults = 1, !.crashes = 1]

\* A live media message, a partial replay, the phone's history and a media retry.
SceneMedia ==
  LET c == [Conversation1("pn", <<Media("a", "pn", 1, 2)>>) EXCEPT !.ondemand = TRUE]
  IN [WithPhone(Empty, <<c>>) EXCEPT
        !.events = {Media("a", "lid", 1, 1), Stub("a", "pn", 1, 3), Revoke("pn", 3, "a")},
        !.learns = TRUE, !.crashes = 1,
        !.rest = {[op |-> "retry", chat |-> "pn", id |-> "a"],
                  [op |-> "receipt", chat |-> "lid", id |-> "a"]}]

\* The phone's answer to request_history repairs a LID twin, or fails to.
SceneAlias ==
  LET c == [Conversation1("pn", <<Media("a", "pn", 1, 2)>>) EXCEPT !.ondemand = TRUE]
  IN [WithPhone(Empty, <<c>>) EXCEPT !.events = {UrlOnly("a", "lid", 1, 1)}, !.learns = TRUE, !.faults = 1]

\* Payloads of three rows in two chunks, with a bad row and busy writes, an
\* old row below the cutoff, a pointer row and a conversation without a date.
SceneImport ==
  LET c1 == [Conversation1("pn", <<Text("a", "pn", 5), Text("b", "pn", 4),
                                   [Text("z", "pn", 4) EXCEPT !.kind = "edit"], UrlOnly("c", "pn", 3, 1)>>) EXCEPT !.read = TRUE]
      c2 == Conversation1("group", <<[Text("z", "group", 0) EXCEPT !.kind = "empty"], Text("a", "group", 3)>>)
  IN [WithPhone(Empty, <<c1, c2>>) EXCEPT !.bad = {"b"}, !.faults = 2,
        !.events = {Text("c", "pn", 3)}, !.rest = {[op |-> "stop"], [op |-> "delete", chat |-> "pn", id |-> "a"]}]

\* A member's bundle beside live messages of the same group; the bundle repeats
\* a message, claims one of ours and holds a poll that was deleted here.
SceneShare ==
  LET c == Conversation1("group", <<By(Text("a", "group", 5), "B"), By(Text("b", "group", 2), "me"), Poll("c", "group", 2)>>)
  IN [WithPhone(WithPeer(Empty, <<c>>), <<Conversation1("group", <<[Text("z", "group", 2) EXCEPT !.kind = "empty", !.job = "share"],
                                                             Text("b", "group", 2)>>)>>) EXCEPT
        !.events = {Text("a", "group", 3), Poll("c", "group", 2), Share("group", 4)}, !.faults = 1,
        !.rest = {[op |-> "delete", chat |-> "group", id |-> "c"], [op |-> "stop"]}]

\* Live positions, live and newest-first from the history, under a LID that
\* becomes known, and another author's message under the same ID.
ScenePosition ==
  LET c == Conversation1("lid", <<Position("a", "lid", 4, 2), Position("a", "lid", 1, 0)>>)
  IN [WithPhone(Empty, <<c>>) EXCEPT !.learns = TRUE, !.crashes = 1,
        !.events = {By(Position("a", "lid", 3, 1), "A@lid"), By(Text("a", "lid", 4), "B"),
                    [By(Position("a", "lid", 1, 0), "A@lid") EXCEPT !.text = ""]},
        !.rest = {[op |-> "revoke", chat |-> "pn", id |-> "a", now |-> 9]}]

MCScenes == {SceneResend, SceneMedia, SceneAlias, SceneImport, SceneShare, ScenePosition}
==============================================================================
