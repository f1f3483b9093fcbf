------------------------------- MODULE Workspace -------------------------------
(***************************************************************************)
(* A passalong-server workspace, as its clients rely on it: what each      *)
(* request answers and changes.  The server is not part of this            *)
(* repository; every request is one atomic step of it.                     *)
(***************************************************************************)
EXTENDS Naturals, FiniteSets

CONSTANTS Contents,  \* what items hold, numbered oldest first
          Admins,    \* devices that change the workspace's encryption
          Writers,   \* devices that store and delete items
          MaxKey,    \* bound on the data keys made
          MaxPuts,   \* bound on the uploads of each writer
          NoSession

ASSUME WorkspaceAssumption ==
  /\ Contents \subseteq Nat /\ MaxKey \in Nat \ {0} /\ MaxPuts \in Nat
  /\ Admins \cap Writers = {}

VARIABLE ws

\* Key 0 is that of a plaintext workspace.
KeyIds == 0..MaxKey
Copies == [content : Contents, key : KeyIds, whole : BOOLEAN]
Uploads == Writers \X (1..MaxPuts)
Sessions == [holder : Admins, live : BOOLEAN, to : KeyIds, staged : SUBSET Copies]

ASSUME NoSessionAssumption == NoSession \notin Sessions

WorkspaceTypeOK ==
  ws \in [key : KeyIds, header : KeyIds, items : SUBSET Copies, plain : SUBSET Copies,
          session : Sessions \cup {NoSession}, ended : SUBSET KeyIds,
          done : SUBSET Uploads, deleted : SUBSET Contents]

WorkspaceInit ==
  ws = [key |-> 0, header |-> 0, items |-> {}, plain |-> {}, session |-> NoSession,
        ended |-> {}, done |-> {}, deleted |-> {}]

Held(copies) == {i.content : i \in copies}
Rewriting == ws.session # NoSession
Holds(d) == Rewriting /\ ws.session.holder = d
Copy(c, k, whole) == [content |-> c, key |-> k, whole |-> whole]

\* A change that was made already answers as if it were made now.
Replays(r) ==
  \/ r.op \in {"enable", "fresh"} /\ ws.key = r.key /\ ~Rewriting
  \/ r.op = "begin" /\ Holds(r.who) /\ ws.session.to = r.key
  \/ r.op = "commit" /\ ws.key = r.key /\ ~Rewriting
  \/ r.op = "abort" /\ r.key \in ws.ended

\* What a write of items answers.
WriteReply(r) ==
  IF Rewriting THEN "rewriting"
  ELSE IF r.expect # ws.key THEN "mismatch"
  ELSE "ok"

\* What a request of the rewrite session answers.
SessionReply(r) ==
  IF ~Rewriting THEN "not-found"
  ELSE IF r.op = "take-over" THEN IF Holds(r.who) \/ ~ws.session.live THEN "ok" ELSE "held"
  ELSE IF ~Holds(r.who) THEN "held"
  ELSE IF r.op # "heartbeat" /\ r.key # ws.session.to THEN "mismatch"
  ELSE IF r.op = "commit" /\ ~(Held(ws.items) \subseteq Held(ws.session.staged)) THEN "incomplete"
  ELSE "ok"

\* The answers a request may get.  The server forgets uploads, begun or
\* committed, after a while.
Replies(r) ==
  IF Replays(r) THEN {"ok"} ELSE
  CASE r.op = "begin" -> {IF r.key \in ws.ended THEN "ended" ELSE WriteReply(r)}
    [] r.op = "enable" -> {IF WriteReply(r) = "ok" /\ ws.items # {} THEN "not-empty" ELSE WriteReply(r)}
    [] r.op \in {"fresh", "replace"} -> {WriteReply(r)}
    [] r.op \in {"heartbeat", "take-over", "stage", "commit", "abort"} -> {SessionReply(r)}
    [] r.op = "begin-upload" ->
         {IF WriteReply(r) = "ok" /\ r.content \in Held(ws.items) THEN "present" ELSE WriteReply(r)}
    [] r.op = "commit-upload" ->
         {"not-found"} \cup {IF r.id \in ws.done THEN "ok" ELSE WriteReply(r)}
    [] r.op = "delete" ->
         {IF WriteReply(r) = "ok" /\ r.content \notin Held(ws.items) THEN "not-found" ELSE WriteReply(r)}

\* What it changes when it is done now.
Changed(r) ==
  CASE r.op = "enable"    -> [ws EXCEPT !.key = r.key, !.header = r.key]
    [] r.op = "fresh"     -> [ws EXCEPT !.key = r.key, !.header = r.key, !.plain = ws.items, !.items = {}]
    [] r.op = "replace"   -> [ws EXCEPT !.header = r.key]
    [] r.op = "begin"     -> [ws EXCEPT !.session = [holder |-> r.who, live |-> TRUE, to |-> r.key, staged |-> {}]]
    [] r.op = "heartbeat" -> [ws EXCEPT !.session.live = TRUE]
    [] r.op = "take-over" -> [ws EXCEPT !.session.live = TRUE, !.session.holder = r.who]
    [] r.op = "stage"     -> IF r.content \in Held(ws.session.staged) THEN ws
                             ELSE [ws EXCEPT !.session.staged = @ \cup {Copy(r.content, r.key, r.whole)}]
    [] r.op = "commit"    -> [ws EXCEPT !.key = r.key, !.header = r.key,
                                        !.items = ws.session.staged, !.session = NoSession]
    [] r.op = "abort"     -> [ws EXCEPT !.ended = @ \cup {r.key}, !.session = NoSession]
    [] r.op = "begin-upload"  -> ws
    [] r.op = "commit-upload" -> IF r.id \in ws.done THEN ws
                                 ELSE [ws EXCEPT !.done = @ \cup {r.id},
                                         !.items = IF r.content \in Held(@) THEN @
                                                   ELSE @ \cup {Copy(r.content, r.key, TRUE)}]
    [] r.op = "delete" -> [ws EXCEPT !.items = {i \in @ : i.content # r.content},
                                     !.deleted = @ \cup {r.content}]

\* The request is served, and answered with a.
Serve(r, a) ==
  /\ a \in Replies(r)
  /\ ws' = IF a # "ok" \/ Replays(r) THEN ws ELSE Changed(r)
================================================================================
