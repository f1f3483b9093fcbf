------------------------------ MODULE HttpsProofs ------------------------------
(***************************************************************************)
(* What the devices of a passalong-server workspace rely on, for any       *)
(* number of devices, contents, keys, uploads and faults: the requests     *)
(* under way say enough for the server to refuse whatever another change   *)
(* has overtaken.                                                          *)
(***************************************************************************)
EXTENDS HttpsDevices, TLAPS

\* A re-encryption under a data key has begun when the workspace is past that
\* key, when it was undone, or when it is the one under way; it begins once.
Current(k) == Rewriting /\ ws.session.to = k
Begun(k) == k <= ws.key \/ k \in ws.ended \/ Current(k)

\* What is stored, was set aside or was deleted on purpose.
Kept(c) == c \in Held(ws.items) \cup Held(ws.plain) \cup ws.deleted

\* Every item of the workspace has a whole copy under the new key.
AllCopied(k) == \A c \in Held(ws.items) : Copy(c, k, TRUE) \in ws.session.staged

WsGood ==
  /\ WorkspaceTypeOK
  /\ OneKey /\ HeaderOpens /\ CopiesWhole
  /\ ws.key = 0 => ws.plain = {}
  /\ Rewriting =>
       /\ ws.key < ws.session.to
       /\ \A i \in ws.session.staged : i.key = ws.session.to /\ i.content \in Held(ws.items)
       /\ \A i, j \in ws.session.staged : i.content = j.content => i = j

UploadOps == {"begin-upload", "commit-upload"}

Requests ==
  [op : {"enable", "fresh"}, expect : {0}, key : KeyIds \ {0}]
    \cup [op : {"replace"}, expect : KeyIds, key : KeyIds]
    \cup [op : {"begin"}, who : Admins, expect : KeyIds, key : KeyIds]
    \cup [op : {"heartbeat", "take-over"}, who : Admins]
    \cup [op : {"stage"}, who : Admins, key : KeyIds, content : Contents, whole : BOOLEAN]
    \cup [op : {"commit", "abort"}, who : Admins, key : KeyIds]
    \cup [op : UploadOps, id : Uploads, content : Contents, key : KeyIds, expect : KeyIds]
    \cup [op : {"delete"}, content : Contents, expect : KeyIds]

\* What a request says was so when it was made, and is so or no longer matters
\* when it is served.
Sound(r) ==
  /\ r \in Requests
  /\ r.op = "replace" => r.key = r.expect
  /\ r.op = "begin" => r.expect < r.key
  /\ r.op \in {"enable", "fresh", "begin"} => r.key < nextKey
  /\ r.op \in {"stage", "commit"} => Begun(r.key)
  /\ r.op = "stage" /\ Current(r.key) => r.content \in Held(ws.items)
  /\ r.op = "commit" /\ Current(r.key) => AllCopied(r.key)
  /\ r.op \in UploadOps =>
       /\ r.key = r.expect /\ r.id[2] <= puts[r.id[1]]
       /\ r.id \in ws.done => Kept(r.content)

\* The requests that are under way.
Sent(r) ==
  \/ r \in late
  \/ \E d \in Admins : pc[d] = "ask" /\ r = job[d].req
  \/ \E c \in Writers : wpc[c] = "ask" /\ r = wreq[c]

\* Requests that name one upload are about one content.
SameUpload(r, s) ==
  r.op \in UploadOps /\ s.op \in UploadOps /\ r.id = s.id => r.content = s.content

Jobs == [mode : {"none", "change", "rewrite", "abort"}, req : Requests \cup {NoReq},
         old : KeyIds, key : KeyIds, items : SUBSET Contents, left : SUBSET Contents,
         again : BOOLEAN]

\* A device that re-encrypts knows every item there is, and which copies of
\* them it has read back.
Works(d) ==
  \/ pc[d] \in {"list", "copy", "verify"}
  \/ pc[d] = "ask" /\ job[d].mode = "rewrite" /\ job[d].req.op # "begin"
Knows(d) ==
  \/ pc[d] \in {"copy", "verify"}
  \/ pc[d] = "ask" /\ job[d].req.op = "stage"
JobSound(d) ==
  /\ Works(d) => Begun(job[d].key)
  /\ pc[d] = "ask" /\ job[d].req.op = "begin" => job[d].req.key = job[d].key
  /\ \/ pc[d] \in {"list", "copy", "verify"}
     \/ pc[d] = "ask" /\ job[d].req.op = "stage"
     => job[d].mode = "rewrite"
  /\ Current(job[d].key) =>
       /\ Knows(d) => job[d].items = Held(ws.items)
       /\ pc[d] = "verify" =>
            \A c \in job[d].items \ job[d].left : Copy(c, job[d].key, TRUE) \in ws.session.staged

KeysMade ==
  /\ ws.key < nextKey /\ (Rewriting => ws.session.to < nextKey)
  /\ \A d \in Admins : job[d].old < nextKey

Steps == {"idle", "ask", "list", "copy", "verify"}

Typed ==
  /\ pc \in [Admins -> Steps] /\ job \in [Admins -> Jobs]
  /\ nextKey \in Nat \ {0}
  /\ wpc \in [Writers -> {"idle", "ask", "settle"}] /\ wreq \in [Writers -> Requests \cup {NoReq}]
  /\ wkey \in [Writers -> KeyIds] /\ puts \in [Writers -> 0..MaxPuts]

IInv ==
  /\ WsGood /\ Typed /\ KeysMade
  /\ \A r : Sent(r) => Sound(r)
  /\ \A r, s : Sent(r) /\ Sent(s) => SameUpload(r, s)
  /\ \A d \in Admins : JobSound(d)
  /\ \A u \in ws.done : u[2] <= puts[u[1]]
  /\ \A c \in told : Kept(c)

--------------------------------------------------------------------------------
(***************************************************************************)
(* What the server does with a request.                                    *)
(***************************************************************************)
ReqOps == {"enable", "fresh", "replace", "begin", "heartbeat", "take-over", "stage", "commit",
           "abort", "begin-upload", "commit-upload", "delete"}

LEMMA RequestFields ==
  ASSUME NEW r \in Requests
  PROVE  /\ r.op \in ReqOps
         /\ r.op \in {"enable", "fresh"} => r.expect = 0 /\ r.key \in KeyIds \ {0}
         /\ r.op = "replace" => r.expect \in KeyIds /\ r.key \in KeyIds
         /\ r.op = "begin" => r.who \in Admins /\ r.expect \in KeyIds /\ r.key \in KeyIds
         /\ r.op \in {"heartbeat", "take-over"} => r.who \in Admins
         /\ r.op = "stage" => /\ r.who \in Admins /\ r.key \in KeyIds
                              /\ r.content \in Contents /\ r.whole \in BOOLEAN
         /\ r.op \in {"commit", "abort"} => r.who \in Admins /\ r.key \in KeyIds
         /\ r.op \in UploadOps => /\ r.id \in Uploads /\ r.content \in Contents
                                  /\ r.key \in KeyIds /\ r.expect \in KeyIds
         /\ r.op = "delete" => r.content \in Contents /\ r.expect \in KeyIds
  BY DEF Requests, ReqOps, UploadOps

\* A request that changes the workspace was not made before, and was answered
\* with "ok".
LEMMA ServeChanges ==
  ASSUME NEW r, NEW a, Serve(r, a), ws' # ws
  PROVE  a = "ok" /\ ~Replays(r) /\ a \in Replies(r) /\ ws' = Changed(r)
  BY DEF Serve

LEMMA Enabled ==
  ASSUME NEW r \in Requests, r.op = "enable", NEW a, Serve(r, a), ws' # ws
  PROVE  /\ ~Rewriting /\ ws.key = 0 /\ ws.items = {}
         /\ ws' = [ws EXCEPT !.key = r.key, !.header = r.key]
  BY ServeChanges, RequestFields DEF Replies, WriteReply, Changed

LEMMA Freshened ==
  ASSUME NEW r \in Requests, r.op = "fresh", NEW a, Serve(r, a), ws' # ws
  PROVE  /\ ~Rewriting /\ ws.key = 0
         /\ ws' = [ws EXCEPT !.key = r.key, !.header = r.key, !.plain = ws.items, !.items = {}]
  BY ServeChanges, RequestFields DEF Replies, WriteReply, Changed

LEMMA Replaced ==
  ASSUME NEW r \in Requests, r.op = "replace", NEW a, Serve(r, a), ws' # ws
  PROVE  /\ ~Rewriting /\ ws.key = r.expect
         /\ ws' = [ws EXCEPT !.header = r.key]
  BY ServeChanges, RequestFields DEF Replies, WriteReply, Changed

LEMMA Started ==
  ASSUME NEW r \in Requests, r.op = "begin", NEW a, Serve(r, a), ws' # ws
  PROVE  /\ ~Rewriting /\ ws.key = r.expect /\ r.key \notin ws.ended
         /\ ws' = [ws EXCEPT !.session = [holder |-> r.who, live |-> TRUE, to |-> r.key, staged |-> {}]]
  BY ServeChanges, RequestFields DEF Replies, WriteReply, Changed

LEMMA Leased ==
  ASSUME NEW r \in Requests, r.op \in {"heartbeat", "take-over"}, NEW a, Serve(r, a), ws' # ws
  PROVE  /\ Rewriting
         /\ \/ ws' = [ws EXCEPT !.session.live = TRUE]
            \/ ws' = [ws EXCEPT !.session.live = TRUE, !.session.holder = r.who]
  BY ServeChanges, RequestFields DEF Replies, SessionReply, Changed

LEMMA StagedCopy ==
  ASSUME NEW r \in Requests, r.op = "stage", NEW a, Serve(r, a), ws' # ws
  PROVE  /\ Rewriting /\ r.key = ws.session.to /\ r.content \notin Held(ws.session.staged)
         /\ ws' = [ws EXCEPT !.session.staged = @ \cup {Copy(r.content, r.key, r.whole)}]
  BY ServeChanges, RequestFields DEF Replies, SessionReply, Changed

LEMMA Committed ==
  ASSUME NEW r \in Requests, r.op = "commit", NEW a, Serve(r, a), ws' # ws
  PROVE  /\ Current(r.key) /\ Held(ws.items) \subseteq Held(ws.session.staged)
         /\ ws' = [ws EXCEPT !.key = r.key, !.header = r.key,
                             !.items = ws.session.staged, !.session = NoSession]
  BY ServeChanges, RequestFields DEF Replies, SessionReply, Changed, Current

LEMMA Aborted ==
  ASSUME NEW r \in Requests, r.op = "abort", NEW a, Serve(r, a), ws' # ws
  PROVE  /\ Current(r.key)
         /\ ws' = [ws EXCEPT !.ended = @ \cup {r.key}, !.session = NoSession]
  BY ServeChanges, RequestFields DEF Replies, SessionReply, Changed, Current

LEMMA Uploaded ==
  ASSUME NEW r \in Requests, r.op \in UploadOps, NEW a, Serve(r, a), ws' # ws
  PROVE  /\ ~Rewriting /\ ws.key = r.expect /\ r.id \notin ws.done
         /\ ws' = [ws EXCEPT !.done = @ \cup {r.id},
                             !.items = IF r.content \in Held(@) THEN @
                                       ELSE @ \cup {Copy(r.content, r.key, TRUE)}]
  BY ServeChanges, RequestFields DEF Replies, WriteReply, Changed, UploadOps

LEMMA Deleted ==
  ASSUME NEW r \in Requests, r.op = "delete", NEW a, Serve(r, a), ws' # ws
  PROVE  /\ ~Rewriting
         /\ ws' = [ws EXCEPT !.items = {i \in @ : i.content # r.content},
                             !.deleted = @ \cup {r.content}]
  BY ServeChanges, RequestFields DEF Replies, WriteReply, Changed

(***************************************************************************)
(* What every change of the workspace keeps.                               *)
(***************************************************************************)
\* The key only moves on, a re-encryption begins once and finds the same items
\* as long as it lasts, and what is kept stays so.
Onward ==
  /\ ws.key <= ws'.key
  /\ \A k \in KeyIds : Begun(k) => Begun(k)'
  /\ \A k \in KeyIds : Begun(k) /\ Current(k)' =>
       /\ Current(k) /\ Held(ws'.items) = Held(ws.items)
       /\ ws.session.staged \subseteq ws'.session.staged
  /\ \A c : Kept(c) => Kept(c)'

LEMMA WsFields ==
  ASSUME WorkspaceTypeOK
  PROVE  /\ ws.key \in KeyIds /\ ws.header \in KeyIds /\ ws.items \in SUBSET Copies
         /\ ws.plain \in SUBSET Copies /\ ws.session \in Sessions \cup {NoSession}
         /\ ws.ended \in SUBSET KeyIds /\ ws.done \in SUBSET Uploads
         /\ ws.deleted \in SUBSET Contents
  BY DEF WorkspaceTypeOK

LEMMA KeysAreNumbers == \A k \in KeyIds : k \in Nat
  BY WorkspaceAssumption DEF KeyIds

LEMMA SameGood ==
  ASSUME WsGood, ws' = ws
  PROVE  WsGood' /\ Onward
<1>1. WsGood'
  BY DEF WsGood, WorkspaceTypeOK, OneKey, HeaderOpens, CopiesWhole, Rewriting
<1>2. ws.key <= ws'.key
  BY WsFields, KeysAreNumbers DEF WsGood
<1> QED
  BY <1>1, <1>2 DEF Onward, Begun, Current, Kept, Rewriting

\* Between re-encryptions none is continued.
LEMMA OnwardIdle ==
  ASSUME WorkspaceTypeOK, WorkspaceTypeOK', ~Rewriting, ws.key <= ws'.key,
         ws'.session = ws.session, ws'.ended = ws.ended, \A c : Kept(c) => Kept(c)'
  PROVE  Onward
<1>1. ~Rewriting'
  BY DEF Rewriting
<1>2. \A k \in KeyIds : Begun(k) => Begun(k)'
  BY <1>1, WsFields, KeysAreNumbers DEF Begun, Current, WorkspaceTypeOK
<1> QED
  BY <1>1, <1>2 DEF Onward, Current

LEMMA SameKept ==
  ASSUME ws'.items = ws.items, ws'.plain = ws.plain, ws'.deleted = ws.deleted
  PROVE  \A c : Kept(c) => Kept(c)'
  BY DEF Kept, Held

\* The key and the header change.
LEMMA KeepsEnable ==
  ASSUME WsGood, ~Rewriting, ws.items = {}, NEW k \in KeyIds \ {0}, ws.key = 0,
         ws' = [ws EXCEPT !.key = k, !.header = k]
  PROVE  WsGood' /\ Onward
<1> USE DEF WsGood
<1>1. /\ ws'.key = k /\ ws'.header = k /\ ws'.items = ws.items /\ ws'.plain = ws.plain
      /\ ws'.session = ws.session /\ ws'.ended = ws.ended /\ ws'.deleted = ws.deleted
  BY DEF WorkspaceTypeOK
<1>2. WorkspaceTypeOK'
  BY DEF WorkspaceTypeOK
<1>3. WsGood'
  BY <1>1, <1>2, KeysAreNumbers DEF OneKey, HeaderOpens, CopiesWhole, Rewriting
<1>4. Onward
  BY <1>1, <1>2, WsFields, KeysAreNumbers, OnwardIdle, SameKept
<1> QED
  BY <1>3, <1>4

\* A fresh start sets the items aside.
LEMMA KeepsFresh ==
  ASSUME WsGood, ~Rewriting, NEW k \in KeyIds \ {0}, ws.key = 0,
         ws' = [ws EXCEPT !.key = k, !.header = k, !.plain = ws.items, !.items = {}]
  PROVE  WsGood' /\ Onward
<1> USE DEF WsGood
<1>1. /\ ws'.key = k /\ ws'.header = k /\ ws'.items = {} /\ ws'.plain = ws.items
      /\ ws'.session = ws.session /\ ws'.ended = ws.ended /\ ws'.deleted = ws.deleted
  BY DEF WorkspaceTypeOK
<1>2. WorkspaceTypeOK'
  BY DEF WorkspaceTypeOK
<1>3. WsGood'
  BY <1>1, <1>2, KeysAreNumbers DEF OneKey, HeaderOpens, CopiesWhole, Rewriting
<1>4. \A c : Kept(c) => Kept(c)'
  BY <1>1 DEF Kept, Held
<1>5. Onward
  BY <1>1, <1>2, <1>4, WsFields, KeysAreNumbers, OnwardIdle
<1> QED
  BY <1>3, <1>5

\* The words change for the key there is.
LEMMA KeepsReplace ==
  ASSUME WsGood, ~Rewriting, ws' = [ws EXCEPT !.header = ws.key]
  PROVE  WsGood' /\ Onward
<1>1. ws' = ws
  BY DEF WsGood, WorkspaceTypeOK, HeaderOpens
<1> QED
  BY <1>1, SameGood

\* A re-encryption begins, under a key of its own.
LEMMA KeepsBegin ==
  ASSUME WsGood, ~Rewriting, NEW d \in Admins, NEW k \in KeyIds \ ws.ended, ws.key < k,
         ws' = [ws EXCEPT !.session = [holder |-> d, live |-> TRUE, to |-> k, staged |-> {}]]
  PROVE  WsGood' /\ Onward
<1> USE DEF WsGood
<1>1. /\ ws'.key = ws.key /\ ws'.header = ws.header /\ ws'.items = ws.items /\ ws'.plain = ws.plain
      /\ ws'.session.to = k /\ ws'.session.staged = {} /\ ws'.ended = ws.ended
      /\ ws'.deleted = ws.deleted
  BY DEF WorkspaceTypeOK
<1>2. WorkspaceTypeOK'
  BY DEF WorkspaceTypeOK, Sessions
<1>3. WsGood'
  BY <1>1, <1>2 DEF OneKey, HeaderOpens, CopiesWhole
<1>4. \A c : Kept(c) => Kept(c)'
  BY <1>1, SameKept
<1>5. ASSUME NEW j \in KeyIds PROVE (Begun(j) => Begun(j)') /\ ~(Begun(j) /\ Current(j)')
  <2>1. ws.key \in Nat /\ k \in Nat /\ j \in Nat
    BY WsFields, KeysAreNumbers
  <2>2. ~Current(j) /\ (Current(j)' => j = k)
    BY <1>1 DEF Current
  <2> QED
    BY <1>1, <2>1, <2>2 DEF Begun
<1> QED
  BY <1>1, <1>3, <1>4, <1>5, WsFields, KeysAreNumbers DEF Onward

\* A lease is renewed, ends or changes hands.
LEMMA KeepsLease ==
  ASSUME WsGood, Rewriting, NEW s \in Sessions, s.to = ws.session.to,
         s.staged = ws.session.staged, ws' = [ws EXCEPT !.session = s]
  PROVE  WsGood' /\ Onward
<1> USE DEF WsGood
<1>1. /\ ws'.key = ws.key /\ ws'.header = ws.header /\ ws'.items = ws.items /\ ws'.plain = ws.plain
      /\ ws'.session = s /\ ws'.ended = ws.ended /\ ws'.deleted = ws.deleted
  BY DEF WorkspaceTypeOK
<1>2. WorkspaceTypeOK'
  BY DEF WorkspaceTypeOK
<1>3. WsGood'
  BY <1>1, <1>2 DEF OneKey, HeaderOpens, CopiesWhole
<1>4. \A c : Kept(c) => Kept(c)'
  BY <1>1, SameKept
<1>5. ASSUME NEW j \in KeyIds PROVE (Begun(j) => Begun(j)') /\ (Current(j)' => Current(j))
  <2>1. Current(j)' = Current(j)
    BY <1>1, NoSessionAssumption DEF Current, Rewriting
  <2> QED
    BY <1>1, <2>1 DEF Begun
<1> QED
  BY <1>1, <1>3, <1>4, <1>5, WsFields, KeysAreNumbers DEF Onward

\* A copy is staged of an item there is, the first one of that item.
LEMMA KeepsStage ==
  ASSUME WsGood, Rewriting, NEW c \in Contents, c \in Held(ws.items),
         c \notin Held(ws.session.staged), NEW whole \in BOOLEAN,
         ws' = [ws EXCEPT !.session.staged = @ \cup {Copy(c, ws.session.to, whole)}]
  PROVE  WsGood' /\ Onward
<1> DEFINE new == Copy(c, ws.session.to, whole)
<1> USE DEF WsGood
<1>1. ws.session \in Sessions
  BY WsFields DEF Rewriting
<1>2. /\ ws'.key = ws.key /\ ws'.header = ws.header /\ ws'.items = ws.items /\ ws'.plain = ws.plain
      /\ ws'.session = [ws.session EXCEPT !.staged = @ \cup {new}]
      /\ ws'.ended = ws.ended /\ ws'.deleted = ws.deleted
  BY DEF WorkspaceTypeOK
<1>3. ws'.session \in Sessions /\ ws'.session.to = ws.session.to
      /\ ws'.session.staged = ws.session.staged \cup {new}
  BY <1>1, <1>2 DEF Sessions, Copies, Copy
<1>4. WorkspaceTypeOK'
  BY <1>2, <1>3 DEF WorkspaceTypeOK
<1>5. new.key = ws.session.to /\ new.content = c
  BY DEF Copy
<1>6. \A i \in ws.session.staged : i.content # c
  BY DEF Held
<1>7. \A i, j \in ws'.session.staged : i.content = j.content => i = j
  BY <1>3, <1>5, <1>6
<1>k. \A i \in ws'.session.staged : i.key = ws'.session.to /\ i.content \in Held(ws'.items)
  BY <1>2, <1>3, <1>5
<1>8. WsGood'
  BY <1>2, <1>3, <1>4, <1>k, <1>7 DEF OneKey, HeaderOpens, CopiesWhole
<1>9. \A a : Kept(a) => Kept(a)'
  BY <1>2, SameKept
<1>10. ASSUME NEW j \in KeyIds PROVE (Begun(j) => Begun(j)') /\ (Current(j)' => Current(j))
  <2>1. Current(j)' = Current(j)
    BY <1>2, <1>3, NoSessionAssumption DEF Current, Rewriting
  <2> QED
    BY <1>2, <2>1 DEF Begun
<1>11. ws.key <= ws'.key /\ Held(ws'.items) = Held(ws.items)
       /\ ws.session.staged \subseteq ws'.session.staged
  BY <1>2, <1>3, WsFields, KeysAreNumbers
<1> QED
  BY <1>8, <1>9, <1>10, <1>11 DEF Onward

\* When every item has a whole copy, the copies take the items' place.
LEMMA KeepsCommit ==
  ASSUME WsGood, NEW k \in KeyIds, Current(k), AllCopied(k),
         Held(ws.items) \subseteq Held(ws.session.staged),
         ws' = [ws EXCEPT !.key = k, !.header = k, !.items = ws.session.staged,
                          !.session = NoSession]
  PROVE  WsGood' /\ Onward
<1> USE DEF WsGood
<1>1. ws.session \in Sessions /\ Rewriting /\ ws.session.to = k
  BY WsFields DEF Rewriting, Current
<1>2. /\ ws'.key = k /\ ws'.header = k /\ ws'.items = ws.session.staged /\ ws'.plain = ws.plain
      /\ ws'.session = NoSession /\ ws'.ended = ws.ended /\ ws'.deleted = ws.deleted
  BY DEF WorkspaceTypeOK
<1>3. ws.session.staged \in SUBSET Copies
  BY <1>1 DEF Sessions
<1>4. WorkspaceTypeOK'
  BY <1>2, <1>3 DEF WorkspaceTypeOK
<1>5. ws.key < k /\ ws.key \in Nat /\ k \in Nat
  BY <1>1, WsFields, KeysAreNumbers
<1>6. \A i \in ws.session.staged : i.key = k /\ i.content \in Held(ws.items)
  BY <1>1
<1>7. ASSUME NEW i \in ws.session.staged PROVE i.whole
  <2>1. Copy(i.content, k, TRUE) \in ws.session.staged
    BY <1>6 DEF AllCopied
  <2>2. Copy(i.content, k, TRUE).content = i.content
    BY DEF Copy
  <2>3. i = Copy(i.content, k, TRUE)
    BY <1>1, <2>1, <2>2
  <2>4. Copy(i.content, k, TRUE).whole = TRUE
    BY DEF Copy
  <2> QED
    BY <2>3, <2>4
<1>8. WsGood'
  BY <1>2, <1>4, <1>5, <1>6, <1>7 DEF OneKey, HeaderOpens, CopiesWhole, Rewriting
<1>9. \A c : Kept(c) => Kept(c)'
  BY <1>2 DEF Kept
<1>10. ASSUME NEW j \in KeyIds PROVE (Begun(j) => Begun(j)') /\ ~Current(j)'
  <2>1. j \in Nat /\ ~Current(j)' /\ (Current(j) => j = k)
    BY <1>1, <1>2, KeysAreNumbers DEF Current, Rewriting
  <2> QED
    BY <1>2, <1>5, <2>1 DEF Begun
<1> QED
  BY <1>2, <1>5, <1>8, <1>9, <1>10 DEF Onward

\* What was undone is not begun again.
LEMMA KeepsAbort ==
  ASSUME WsGood, NEW k \in KeyIds, Current(k),
         ws' = [ws EXCEPT !.ended = @ \cup {k}, !.session = NoSession]
  PROVE  WsGood' /\ Onward
<1> USE DEF WsGood
<1>1. /\ ws'.key = ws.key /\ ws'.header = ws.header /\ ws'.items = ws.items /\ ws'.plain = ws.plain
      /\ ws'.session = NoSession /\ ws'.ended = ws.ended \cup {k} /\ ws'.deleted = ws.deleted
  BY DEF WorkspaceTypeOK
<1>2. WorkspaceTypeOK'
  BY DEF WorkspaceTypeOK
<1>3. WsGood'
  BY <1>1, <1>2 DEF OneKey, HeaderOpens, CopiesWhole, Rewriting
<1>4. \A c : Kept(c) => Kept(c)'
  BY <1>1, SameKept
<1>5. ASSUME NEW j \in KeyIds PROVE (Begun(j) => Begun(j)') /\ ~Current(j)'
  BY <1>1 DEF Begun, Current, Rewriting
<1> QED
  BY <1>1, <1>3, <1>4, <1>5, WsFields, KeysAreNumbers DEF Onward

\* An upload adds the item, unless its content is there.
LEMMA KeepsUpload ==
  ASSUME WsGood, ~Rewriting, NEW c \in Contents, NEW u \in Uploads,
         ws' = [ws EXCEPT !.done = @ \cup {u},
                          !.items = IF c \in Held(@) THEN @ ELSE @ \cup {Copy(c, ws.key, TRUE)}]
  PROVE  WsGood' /\ Onward /\ c \in Held(ws'.items)
         /\ ws'.done = ws.done \cup {u} /\ ws'.key = ws.key /\ ws'.session = ws.session
<1> DEFINE new == Copy(c, ws.key, TRUE)
           its == IF c \in Held(ws.items) THEN ws.items ELSE ws.items \cup {new}
<1> USE DEF WsGood
<1>2. new \in Copies /\ new.key = ws.key /\ new.whole = TRUE /\ new.content = c
  BY WsFields DEF Copies, Copy
<1>s. its \in SUBSET Copies
  BY <1>2, WsFields
<1>e. ws' = [ws EXCEPT !.done = @ \cup {u}, !.items = its]
  OBVIOUS
<1> HIDE DEF new, its
<1>1. /\ ws'.key = ws.key /\ ws'.items = its /\ ws'.done = ws.done \cup {u} /\ ws'.header = ws.header /\ ws'.plain = ws.plain
      /\ ws'.session = ws.session /\ ws'.ended = ws.ended /\ ws'.deleted = ws.deleted
  BY <1>e, WsFields, Zenon DEF WorkspaceTypeOK
<1>3. WorkspaceTypeOK'
  <2>1. ws.done \cup {u} \in SUBSET Uploads
    BY WsFields
  <2> DEFINE dn == ws.done \cup {u}
  <2> HIDE DEF dn
  <2>2. ws' = [ws EXCEPT !.done = dn, !.items = its]
    BY <1>e DEF dn
  <2>3. dn \in SUBSET Uploads
    BY <2>1 DEF dn
  <2> QED
    BY <1>s, <2>2, <2>3 DEF WorkspaceTypeOK
<1>i. ws.items \subseteq ws'.items /\ \A i \in ws'.items : i \in ws.items \/ i = new
  <2>1. CASE c \in Held(ws.items)
    BY <1>1, <2>1 DEF its
  <2>2. CASE c \notin Held(ws.items)
    <3>1. ws'.items = ws.items \cup {new}
      BY <1>1, <2>2 DEF its
    <3> QED
      BY <3>1
  <2> QED
    BY <2>1, <2>2
<1>4. WsGood'
  <2>1. OneKey' /\ HeaderOpens' /\ CopiesWhole'
    BY <1>1, <1>2, <1>i DEF OneKey, HeaderOpens, CopiesWhole
  <2> QED
    BY <1>1, <1>3, <2>1 DEF Rewriting
<1>5. \A a : Kept(a) => Kept(a)'
  <2>1. Held(ws.items) \subseteq Held(ws'.items)
    BY <1>i DEF Held
  <2> QED
    BY <1>1, <2>1 DEF Kept
<1>6. c \in Held(ws'.items)
  <2>1. CASE c \in Held(ws.items)
    BY <1>1, <2>1 DEF its
  <2>2. CASE c \notin Held(ws.items)
    <3>1. ws'.items = ws.items \cup {new}
      BY <1>1, <2>2 DEF its
    <3>2. new \in ws'.items
      BY <3>1
    <3> QED
      BY <1>2, <3>2 DEF Held
  <2> QED
    BY <2>1, <2>2
<1>7. Onward
  BY <1>1, <1>3, <1>5, WsFields, KeysAreNumbers, OnwardIdle
<1> QED
  BY <1>1, <1>4, <1>6, <1>7

\* What is deleted is known to be.
LEMMA KeepsDelete ==
  ASSUME WsGood, ~Rewriting, NEW c \in Contents,
         ws' = [ws EXCEPT !.items = {i \in @ : i.content # c}, !.deleted = @ \cup {c}]
  PROVE  WsGood' /\ Onward
<1> USE DEF WsGood
<1>1. /\ ws'.key = ws.key /\ ws'.header = ws.header /\ ws'.plain = ws.plain
      /\ ws'.session = ws.session /\ ws'.ended = ws.ended /\ ws'.deleted = ws.deleted \cup {c}
      /\ ws'.items = {i \in ws.items : i.content # c}
  BY DEF WorkspaceTypeOK
<1>2. WorkspaceTypeOK'
  BY DEF WorkspaceTypeOK
<1>3. WsGood'
  BY <1>1, <1>2 DEF OneKey, HeaderOpens, CopiesWhole, Rewriting
<1>4. \A a : Kept(a) => Kept(a)'
  BY <1>1 DEF Kept, Held
<1>5. Onward
  BY <1>1, <1>2, <1>4, WsFields, KeysAreNumbers, OnwardIdle
<1> QED
  BY <1>3, <1>5

(***************************************************************************)
(* A sound request keeps the workspace good, whenever it is served.        *)
(***************************************************************************)
\* Only a committed upload is remembered as done, with its content stored.
DoneBy(r) ==
  \/ ws'.done = ws.done
  \/ r.op \in UploadOps /\ ws'.done = ws.done \cup {r.id} /\ r.content \in Held(ws'.items)

\* A key comes from the request, or from the re-encryption it ends.
KeyBy(r) ==
  /\ \/ ws'.key = ws.key
     \/ r.op \in {"enable", "fresh"} /\ ws'.key = r.key
     \/ Rewriting /\ ws'.key = ws.session.to
  /\ \/ ws'.session \in {ws.session, NoSession}
     \/ r.op = "begin" /\ ws'.session.to = r.key
     \/ Rewriting /\ ws'.session.to = ws.session.to

LEMMA ServeKeeps ==
  ASSUME WsGood, NEW r, Sound(r), NEW a, Serve(r, a)
  PROVE  WsGood' /\ Onward /\ DoneBy(r) /\ KeyBy(r)
<1> USE DEF Sound
<1>t. r \in Requests
  OBVIOUS
<1>w. WorkspaceTypeOK
  BY DEF WsGood
<1>0. CASE ws' = ws
  BY <1>0, SameGood DEF DoneBy, KeyBy
<1>1. CASE ws' # ws /\ r.op = "enable"
  <2>1. /\ ~Rewriting /\ ws.key = 0 /\ ws.items = {}
        /\ ws' = [ws EXCEPT !.key = r.key, !.header = r.key]
    BY <1>1, <1>t, Enabled
  <2>2. r.key \in KeyIds \ {0}
    BY <1>1, <1>t, RequestFields
  <2>3. ws'.done = ws.done /\ ws'.key = r.key /\ ws'.session = ws.session
    BY <2>1, <1>w DEF WorkspaceTypeOK
  <2> QED
    BY <1>1, <2>1, <2>2, <2>3, KeepsEnable DEF DoneBy, KeyBy
<1>2. CASE ws' # ws /\ r.op = "fresh"
  <2>1. /\ ~Rewriting /\ ws.key = 0
        /\ ws' = [ws EXCEPT !.key = r.key, !.header = r.key, !.plain = ws.items, !.items = {}]
    BY <1>2, <1>t, Freshened
  <2>2. r.key \in KeyIds \ {0}
    BY <1>2, <1>t, RequestFields
  <2>3. ws'.done = ws.done /\ ws'.key = r.key /\ ws'.session = ws.session
    BY <2>1, <1>w DEF WorkspaceTypeOK
  <2> QED
    BY <1>2, <2>1, <2>2, <2>3, KeepsFresh DEF DoneBy, KeyBy
<1>3. CASE ws' # ws /\ r.op = "replace"
  <2>1. ~Rewriting /\ ws.key = r.expect /\ ws' = [ws EXCEPT !.header = r.key]
    BY <1>3, <1>t, Replaced
  <2>2. ws' = [ws EXCEPT !.header = ws.key]
    BY <1>3, <2>1
  <2>3. ws'.done = ws.done /\ ws'.key = ws.key /\ ws'.session = ws.session
    BY <2>1, <1>w DEF WorkspaceTypeOK
  <2> QED
    BY <2>1, <2>2, <2>3, KeepsReplace DEF DoneBy, KeyBy
<1>4. CASE ws' # ws /\ r.op = "begin"
  <2>1. /\ ~Rewriting /\ ws.key = r.expect /\ r.key \notin ws.ended
        /\ ws' = [ws EXCEPT !.session = [holder |-> r.who, live |-> TRUE, to |-> r.key, staged |-> {}]]
    BY <1>4, <1>t, Started
  <2>2. r.key \in KeyIds \ ws.ended /\ r.who \in Admins /\ ws.key < r.key
    BY <1>4, <1>t, <2>1, RequestFields
  <2>3. ws'.done = ws.done /\ ws'.key = ws.key /\ ws'.session.to = r.key
    BY <2>1, <1>w DEF WorkspaceTypeOK
  <2> QED
    BY <1>4, <2>1, <2>2, <2>3, KeepsBegin DEF DoneBy, KeyBy
<1>5. CASE ws' # ws /\ r.op \in {"heartbeat", "take-over"}
  <2>1. /\ Rewriting
        /\ \/ ws' = [ws EXCEPT !.session.live = TRUE]
           \/ ws' = [ws EXCEPT !.session.live = TRUE, !.session.holder = r.who]
    BY <1>5, <1>t, Leased
  <2>2. r.who \in Admins
    BY <1>5, <1>t, RequestFields
  <2>3. ws.session \in Sessions
    BY <1>w, <2>1, WsFields DEF Rewriting
  <2>4. PICK s \in Sessions :
          s.to = ws.session.to /\ s.staged = ws.session.staged /\ ws' = [ws EXCEPT !.session = s]
    <3>1. CASE ws' = [ws EXCEPT !.session.live = TRUE]
      <4> DEFINE s == [ws.session EXCEPT !.live = TRUE]
      <4>1. s \in Sessions /\ s.to = ws.session.to /\ s.staged = ws.session.staged
        BY <2>3 DEF Sessions
      <4> QED BY <3>1, <4>1
    <3>2. CASE ws' = [ws EXCEPT !.session.live = TRUE, !.session.holder = r.who]
      <4> DEFINE s == [ws.session EXCEPT !.live = TRUE, !.holder = r.who]
      <4>1. s \in Sessions /\ s.to = ws.session.to /\ s.staged = ws.session.staged
        BY <2>2, <2>3 DEF Sessions
      <4>2. ws' = [ws EXCEPT !.session = s]
        BY <1>w, <3>2 DEF WorkspaceTypeOK
      <4> QED BY <4>1, <4>2
    <3> QED BY <2>1, <3>1, <3>2
  <2>5. ws'.done = ws.done /\ ws'.key = ws.key /\ ws'.session.to = ws.session.to
    BY <2>4, <1>w DEF WorkspaceTypeOK
  <2> QED
    BY <2>1, <2>4, <2>5, KeepsLease DEF DoneBy, KeyBy
<1>6. CASE ws' # ws /\ r.op = "stage"
  <2>1. /\ Rewriting /\ r.key = ws.session.to /\ r.content \notin Held(ws.session.staged)
        /\ ws' = [ws EXCEPT !.session.staged = @ \cup {Copy(r.content, r.key, r.whole)}]
    BY <1>6, <1>t, StagedCopy
  <2>2. r.content \in Contents /\ r.whole \in BOOLEAN /\ r.content \in Held(ws.items)
    BY <1>6, <1>t, <2>1, RequestFields DEF Current
  <2>3. ws' = [ws EXCEPT !.session.staged = @ \cup {Copy(r.content, ws.session.to, r.whole)}]
    BY <2>1
  <2>4. ws'.done = ws.done /\ ws'.key = ws.key /\ ws'.session.to = ws.session.to
    BY <2>1, <1>w, WsFields DEF WorkspaceTypeOK, Sessions, Rewriting
  <2> QED
    BY <2>1, <2>2, <2>3, <2>4, KeepsStage DEF DoneBy, KeyBy
<1>7. CASE ws' # ws /\ r.op = "commit"
  <2>1. /\ Current(r.key) /\ Held(ws.items) \subseteq Held(ws.session.staged)
        /\ ws' = [ws EXCEPT !.key = r.key, !.header = r.key,
                            !.items = ws.session.staged, !.session = NoSession]
    BY <1>7, <1>t, Committed
  <2>2. r.key \in KeyIds /\ AllCopied(r.key)
    BY <1>7, <1>t, <2>1, RequestFields
  <2>3. ws'.done = ws.done /\ ws'.key = ws.session.to /\ ws'.session = NoSession
    BY <2>1, <1>w DEF WorkspaceTypeOK, Current
  <2>4. WsGood' /\ Onward
    BY <2>1, <2>2, KeepsCommit
  <2>5. Rewriting
    BY <2>1 DEF Current
  <2> QED
    BY <2>3, <2>4, <2>5 DEF DoneBy, KeyBy
<1>8. CASE ws' # ws /\ r.op = "abort"
  <2>1. Current(r.key) /\ ws' = [ws EXCEPT !.ended = @ \cup {r.key}, !.session = NoSession]
    BY <1>8, <1>t, Aborted
  <2>2. r.key \in KeyIds
    BY <1>8, <1>t, RequestFields
  <2>3. ws'.done = ws.done /\ ws'.key = ws.key /\ ws'.session = NoSession
    BY <2>1, <1>w DEF WorkspaceTypeOK
  <2> QED
    BY <2>1, <2>2, <2>3, KeepsAbort DEF DoneBy, KeyBy
<1>9. CASE ws' # ws /\ r.op \in UploadOps
  <2>1. /\ ~Rewriting /\ ws.key = r.expect /\ r.id \notin ws.done
        /\ ws' = [ws EXCEPT !.done = @ \cup {r.id},
                            !.items = IF r.content \in Held(@) THEN @
                                      ELSE @ \cup {Copy(r.content, r.key, TRUE)}]
    BY <1>9, <1>t, Uploaded
  <2>2. r.content \in Contents /\ r.id \in Uploads /\ r.key = ws.key
    BY <1>9, <1>t, <2>1, RequestFields
  <2>3. ws' = [ws EXCEPT !.done = @ \cup {r.id},
                         !.items = IF r.content \in Held(@) THEN @
                                   ELSE @ \cup {Copy(r.content, ws.key, TRUE)}]
    BY <2>1, <2>2, ZenonT(60)
  <2> QED
    BY <1>9, <2>1, <2>2, <2>3, KeepsUpload DEF DoneBy, KeyBy
<1>10. CASE ws' # ws /\ r.op = "delete"
  <2>1. /\ ~Rewriting
        /\ ws' = [ws EXCEPT !.items = {i \in @ : i.content # r.content},
                            !.deleted = @ \cup {r.content}]
    BY <1>10, <1>t, Deleted
  <2>2. r.content \in Contents
    BY <1>10, <1>t, RequestFields
  <2>3. ws'.done = ws.done /\ ws'.key = ws.key /\ ws'.session = ws.session
    BY <2>1, <1>w DEF WorkspaceTypeOK
  <2> QED
    BY <2>1, <2>2, <2>3, KeepsDelete DEF DoneBy, KeyBy
<1>11. r.op \in ReqOps
  BY <1>t, RequestFields
<1> QED
  BY <1>0, <1>1, <1>2, <1>3, <1>4, <1>5, <1>6, <1>7, <1>8, <1>9, <1>10, <1>11 DEF ReqOps, UploadOps

\* The server's keys are keys that were made.
LEMMA ServeKeysMade ==
  ASSUME WsGood, KeysMade, NEW r, Sound(r), KeyBy(r), nextKey \in Nat
  PROVE  ws'.key < nextKey /\ (Rewriting' => ws'.session.to < nextKey)
<1>1. ws'.key < nextKey
  BY DEF Sound, KeysMade, KeyBy
<1>2. Rewriting' => ws'.session.to < nextKey
  BY DEF Sound, KeysMade, KeyBy, Rewriting
<1> QED
  BY <1>1, <1>2

(***************************************************************************)
(* The devices.                                                            *)
(***************************************************************************)
\* What the server's part of a step leaves for the devices to rely on.
Advance ==
  /\ WsGood' /\ Onward
  /\ \A r : Sent(r) /\ r.op \in UploadOps /\ r.id \in ws'.done => Kept(r.content)'
  /\ \A u \in ws'.done : u[2] <= puts[u[1]]
  /\ ws'.key < nextKey /\ (Rewriting' => ws'.session.to < nextKey)

LEMMA ServeAdvances ==
  ASSUME IInv, NEW q, Sent(q), NEW a, Serve(q, a)
  PROVE  Advance
<1>1. Sound(q)
  BY DEF IInv
<1>2. WsGood' /\ Onward /\ DoneBy(q) /\ KeyBy(q)
  BY <1>1, ServeKeeps DEF IInv
<1>3. ws'.key < nextKey /\ (Rewriting' => ws'.session.to < nextKey)
  BY <1>1, <1>2, ServeKeysMade DEF IInv, Typed
<1>4. ASSUME NEW r, Sent(r), r.op \in UploadOps, r.id \in ws'.done PROVE Kept(r.content)'
  <2>1. Sound(r) /\ SameUpload(r, q)
    BY <1>4 DEF IInv
  <2>2. CASE r.id \in ws.done
    BY <1>2, <1>4, <2>1, <2>2 DEF Sound, Onward
  <2>3. CASE r.id \notin ws.done
    <3>1. r.content = q.content /\ q.content \in Held(ws'.items)
      BY <1>2, <1>4, <2>1, <2>3 DEF DoneBy, SameUpload
    <3> QED
      BY <3>1 DEF Kept
  <2> QED
    BY <2>2, <2>3
<1>5. \A u \in ws'.done : u[2] <= puts[u[1]]
  BY <1>1, <1>2 DEF DoneBy, Sound, IInv
<1> QED
  BY <1>2, <1>3, <1>4, <1>5 DEF Advance

LEMMA SameAdvances ==
  ASSUME IInv, ws' = ws
  PROVE  Advance
<1>1. WsGood' /\ Onward
  BY SameGood DEF IInv
<1>2. \A r : Sent(r) /\ r.op \in UploadOps /\ r.id \in ws'.done => Kept(r.content)'
  BY <1>1 DEF IInv, Sound, Onward
<1>3. ws'.key < nextKey /\ (Rewriting' => ws'.session.to < nextKey)
  BY DEF IInv, KeysMade, Rewriting
<1> QED
  BY <1>1, <1>2, <1>3 DEF IInv, Advance

LEMMA LeaseAdvances ==
  ASSUME IInv, Rewriting, NEW live \in BOOLEAN, ws' = [ws EXCEPT !.session.live = live]
  PROVE  Advance
<1> DEFINE s == [ws.session EXCEPT !.live = live]
<1>1. WorkspaceTypeOK /\ ws.session \in Sessions
  BY WsFields DEF IInv, WsGood, Rewriting
<1>2. s \in Sessions /\ s.to = ws.session.to /\ s.staged = ws.session.staged
  BY <1>1 DEF Sessions
<1>3. WsGood' /\ Onward
  BY <1>2, KeepsLease DEF IInv
<1>4. ws'.key = ws.key /\ ws'.done = ws.done /\ ws'.session.to = ws.session.to
  BY <1>1, <1>2 DEF WorkspaceTypeOK
<1>5. \A r : Sent(r) /\ r.op \in UploadOps /\ r.id \in ws'.done => Kept(r.content)'
  BY <1>3, <1>4 DEF IInv, Sound, Onward
<1> QED
  BY <1>3, <1>4, <1>5 DEF IInv, KeysMade, Advance

LEMMA SoundAdvances ==
  ASSUME IInv, Advance, NEW r, Sent(r), nextKey' \in Nat, nextKey <= nextKey',
         \A c \in Writers : puts'[c] \in Nat /\ puts[c] <= puts'[c]
  PROVE  Sound(r)'
<1>1. Sound(r) /\ r \in Requests
  BY DEF IInv, Sound
<1>2. r.op \in {"enable", "fresh", "begin"} => r.key < nextKey'
  <2>1. r.op \in {"enable", "fresh", "begin"} => r.key \in Nat
    BY <1>1, RequestFields, KeysAreNumbers
  <2> QED
    BY <1>1, <2>1 DEF Sound, IInv, Typed
<1>3. r.op \in {"stage", "commit"} => r.key \in KeyIds /\ Begun(r.key) /\ Begun(r.key)'
  BY <1>1, RequestFields DEF Sound, Advance, Onward
<1>4. r.op = "stage" /\ Current(r.key)' => r.content \in Held(ws'.items)
  BY <1>1, <1>3 DEF Sound, Advance, Onward
<1>5. r.op = "commit" /\ Current(r.key)' => AllCopied(r.key)'
  <2> SUFFICES ASSUME r.op = "commit", Current(r.key)' PROVE AllCopied(r.key)'
    OBVIOUS
  <2>1. /\ Current(r.key) /\ Held(ws'.items) = Held(ws.items)
        /\ ws.session.staged \subseteq ws'.session.staged
    BY <1>3 DEF Advance, Onward
  <2> QED
    BY <1>1, <2>1 DEF Sound, AllCopied
<1>6. r.op \in UploadOps => r.id[2] <= puts'[r.id[1]]
  <2> SUFFICES ASSUME r.op \in UploadOps PROVE r.id[2] <= puts'[r.id[1]]
    OBVIOUS
  <2>1. r.id \in Writers \X (1..MaxPuts)
    BY <1>1, RequestFields DEF Uploads
  <2>2. r.id[1] \in Writers /\ r.id[2] \in Nat /\ r.id[2] <= puts[r.id[1]]
    BY <1>1, <2>1, WorkspaceAssumption DEF Sound
  <2>3. puts[r.id[1]] \in Nat
    BY <2>2, WorkspaceAssumption DEF IInv, Typed
  <2> QED
    BY <2>2, <2>3
<1>7. r.op \in UploadOps /\ r.id \in ws'.done => Kept(r.content)'
  BY DEF Advance
<1> QED
  BY <1>1, <1>2, <1>3, <1>4, <1>5, <1>6, <1>7 DEF Sound

LEMMA JobAdvances ==
  ASSUME IInv, Advance, NEW d \in Admins, pc'[d] = pc[d], job'[d] = job[d]
  PROVE  JobSound(d)'
<1> PICK k \in KeyIds : k = job[d].key
  BY DEF IInv, Typed, Jobs
<1>1. JobSound(d)
  BY DEF IInv
<1>2. (Works(d)' <=> Works(d)) /\ (Knows(d)' <=> Knows(d))
  BY DEF Works, Knows
<1>3. Works(d) => Begun(k) /\ Begun(k)'
  BY <1>1 DEF JobSound, Advance, Onward
<1>4. ASSUME Current(k)', Works(d)
      PROVE  /\ Current(k) /\ Held(ws'.items) = Held(ws.items)
             /\ ws.session.staged \subseteq ws'.session.staged
  BY <1>3, <1>4 DEF Advance, Onward
<1>5. Current(k)' /\ Knows(d) => job[d].items = Held(ws'.items)
  <2>1. Knows(d) => Works(d)
    BY <1>1 DEF JobSound, Works, Knows
  <2> QED
    BY <1>1, <1>4, <2>1 DEF JobSound
<1>6. ASSUME Current(k)', pc[d] = "verify", NEW c \in job[d].items \ job[d].left
      PROVE  Copy(c, k, TRUE) \in ws'.session.staged
  <2>1. Works(d)
    BY <1>6 DEF Works
  <2> QED
    BY <1>1, <1>4, <1>6, <2>1 DEF JobSound
<1>7. /\ pc'[d] = "ask" /\ job'[d].req.op = "begin" => job'[d].req.key = job'[d].key
      /\ \/ pc'[d] \in {"list", "copy", "verify"}
         \/ pc'[d] = "ask" /\ job'[d].req.op = "stage"
         => job'[d].mode = "rewrite"
  BY <1>1 DEF JobSound
<1>8. (Current(job[d].key)' <=> Current(k)') /\ (Begun(job[d].key)' <=> Begun(k)')
  BY DEF Current, Begun
<1> QED
  BY <1>2, <1>3, <1>5, <1>6, <1>7, <1>8 DEF JobSound

\* Uploads the server remembers were begun by their writers.
LEMMA DoneAdvances ==
  ASSUME IInv, Advance, \A c \in Writers : puts'[c] \in Nat /\ puts[c] <= puts'[c]
  PROVE  \A u \in ws'.done : u[2] <= puts'[u[1]]
<1> SUFFICES ASSUME NEW u \in ws'.done PROVE u[2] <= puts'[u[1]]
  OBVIOUS
<1>1. u \in Writers \X (1..MaxPuts)
  BY DEF Advance, WsGood, WorkspaceTypeOK, Uploads
<1>2. u[1] \in Writers /\ u[2] \in Nat /\ u[2] <= puts[u[1]]
  BY <1>1, WorkspaceAssumption DEF Advance
<1>3. puts[u[1]] \in Nat
  BY <1>2, WorkspaceAssumption DEF IInv, Typed
<1> QED
  BY <1>2, <1>3

LEMMA ToldAdvances ==
  ASSUME IInv, Advance, NEW c \in told
  PROVE  Kept(c)'
  BY DEF IInv, Advance, Onward

LEMMA PutsStay ==
  ASSUME IInv, puts' = puts
  PROVE  \A c \in Writers : puts'[c] \in Nat /\ puts[c] <= puts'[c]
  BY WorkspaceAssumption DEF IInv, Typed

\* A step of one administrator: whatever it asks is sound.
LEMMA AdminMove ==
  ASSUME IInv, Advance, NEW d \in Admins, pc' \in [Admins -> Steps], job' \in [Admins -> Jobs],
         \A e \in Admins \ {d} : pc'[e] = pc[e] /\ job'[e] = job[e],
         JobSound(d)', job'[d].old < nextKey',
         pc'[d] = "ask" =>
           \A r : r = job'[d].req => Sound(r)' /\ r.op \notin UploadOps,
         UNCHANGED writerVars, \A r \in late' : Sent(r), nextKey' \in Nat, nextKey <= nextKey'
  PROVE  IInv'
<1>1. wpc' = wpc /\ wkey' = wkey /\ wreq' = wreq /\ puts' = puts /\ told' = told
  BY DEF writerVars
<1>2. ASSUME NEW r, Sent(r)' PROVE Sent(r) \/ (pc'[d] = "ask" /\ r = job'[d].req)
  BY <1>1, <1>2 DEF Sent
<1>3. ASSUME NEW r, Sent(r)' PROVE Sound(r)'
  BY <1>1, <1>2, <1>3, SoundAdvances, PutsStay
<1>4. ASSUME NEW r, NEW s, Sent(r)', Sent(s)' PROVE SameUpload(r, s)
  BY <1>2, <1>4 DEF IInv, SameUpload
<1>5. \A e \in Admins : JobSound(e)'
  BY JobAdvances
<1>6. Typed' /\ WsGood'
  BY <1>1 DEF IInv, Typed, Advance
<1>7. KeysMade'
  <2>1. ws.key \in Nat
    BY WsFields, KeysAreNumbers DEF IInv, WsGood
  <2>2. \A e \in Admins : job[e].old \in Nat
    BY KeysAreNumbers DEF IInv, Typed, Jobs
  <2>3. ws'.key \in Nat /\ (Rewriting' => ws'.session.to \in Nat)
    BY KeysAreNumbers DEF Advance, WsGood, WorkspaceTypeOK, Rewriting, Sessions
  <2>4. nextKey \in Nat
    BY DEF IInv, Typed
  <2>5. \A e \in Admins : job'[e].old < nextKey'
    BY <2>2, <2>4 DEF IInv, KeysMade
  <2> QED
    BY <2>3, <2>4, <2>5 DEF Advance, KeysMade
<1>8. \A u \in ws'.done : u[2] <= puts'[u[1]]
  BY <1>1, DoneAdvances, PutsStay
<1>9. \A c \in told' : Kept(c)'
  BY <1>1, ToldAdvances
<1> QED
  BY <1>3, <1>4, <1>5, <1>6, <1>7, <1>8, <1>9 DEF IInv, SameUpload

\* A step of one writer: it asks what is sound, and begins each upload once.
LEMMA WriterMove ==
  ASSUME IInv, Advance, NEW c \in Writers,
         wpc' \in [Writers -> {"idle", "ask", "settle"}], wreq' \in [Writers -> Requests \cup {NoReq}],
         wkey' \in [Writers -> KeyIds], puts' \in [Writers -> 0..MaxPuts],
         \A e \in Writers \ {c} : wpc'[e] = wpc[e] /\ wreq'[e] = wreq[e],
         \A e \in Writers : puts[e] <= puts'[e],
         wpc'[c] = "ask" =>
           \A r : r = wreq'[c] => Sound(r)' /\ \A s : Sent(s) => SameUpload(r, s),
         UNCHANGED adminVars, \A r \in late' : Sent(r), \A k \in told' : Kept(k)'
  PROVE  IInv'
<1>1. pc' = pc /\ job' = job /\ nextKey' = nextKey
  BY DEF adminVars
<1>2. ASSUME NEW r, Sent(r)' PROVE Sent(r) \/ (wpc'[c] = "ask" /\ r = wreq'[c])
  BY <1>1, <1>2 DEF Sent
<1>p. \A e \in Writers : puts'[e] \in Nat /\ puts[e] <= puts'[e]
  BY WorkspaceAssumption
<1>n. nextKey \in Nat
  BY DEF IInv, Typed
<1>3. ASSUME NEW r, Sent(r)' PROVE Sound(r)'
  BY <1>1, <1>2, <1>3, <1>p, <1>n, SoundAdvances
<1>4. ASSUME NEW r, NEW s, Sent(r)', Sent(s)' PROVE SameUpload(r, s)
  BY <1>2, <1>4 DEF IInv, SameUpload
<1>5. \A e \in Admins : JobSound(e)'
  BY <1>1, JobAdvances
<1>6. Typed' /\ WsGood'
  BY <1>1 DEF IInv, Typed, Advance
<1>7. KeysMade'
  BY <1>1 DEF Advance, IInv, KeysMade
<1>8. \A u \in ws'.done : u[2] <= puts'[u[1]]
  BY <1>p, DoneAdvances
<1> QED
  BY <1>3, <1>4, <1>5, <1>6, <1>7, <1>8 DEF IInv, SameUpload

(***************************************************************************)
(* The administrators' steps.                                              *)
(***************************************************************************)
LEMMA SetFacts ==
  ASSUME IInv, NEW d \in Admins, NEW step \in Steps, NEW j \in Jobs, Set(d, step, j)
  PROVE  /\ pc' \in [Admins -> Steps] /\ job' \in [Admins -> Jobs]
         /\ pc'[d] = step /\ job'[d] = j
         /\ \A e \in Admins \ {d} : pc'[e] = pc[e] /\ job'[e] = job[e]
  BY DEF IInv, Typed, Set

LEMMA NoJobTyped == NoJob \in Jobs
  BY WorkspaceAssumption DEF NoJob, Jobs, KeyIds

\* A device that gives up keeps nothing.
LEMMA FailMove ==
  ASSUME IInv, Advance, NEW d \in Admins, Fail(d),
         UNCHANGED writerVars, \A r \in late' : Sent(r), nextKey' \in Nat \ {0}, nextKey <= nextKey'
  PROVE  IInv'
<1>1. /\ pc' \in [Admins -> Steps] /\ job' \in [Admins -> Jobs]
      /\ pc'[d] = "idle" /\ job'[d] = NoJob
      /\ \A e \in Admins \ {d} : pc'[e] = pc[e] /\ job'[e] = job[e]
  BY NoJobTyped, SetFacts DEF Fail, Steps
<1>2. JobSound(d)'
  BY <1>1 DEF JobSound, Works, Knows
<1>3. job'[d].old < nextKey'
  BY <1>1 DEF NoJob
<1> QED
  BY <1>1, <1>2, <1>3, AdminMove

LEMMA RequestKinds ==
  /\ \A k \in KeyIds \ {0} : [op |-> "enable", expect |-> 0, key |-> k] \in Requests
  /\ \A k \in KeyIds \ {0} : [op |-> "fresh", expect |-> 0, key |-> k] \in Requests
  /\ \A k \in KeyIds : Replace(k) \in Requests
  /\ \A d \in Admins, o \in KeyIds, k \in KeyIds : BeginRequest(d, o, k) \in Requests
  /\ \A d \in Admins : Hold(d) \in Requests
  /\ \A d \in Admins, k \in KeyIds, c \in Contents, w \in BOOLEAN :
       [op |-> "stage", who |-> d, key |-> k, content |-> c, whole |-> w] \in Requests
  /\ \A d \in Admins, k \in KeyIds, o \in {"commit", "abort"} :
       [op |-> o, who |-> d, key |-> k] \in Requests
  BY DEF Requests, Replace, BeginRequest, Hold

\* The key a device makes is past every other.
LEMMA NewKeyFacts ==
  ASSUME IInv, NewKey
  PROVE  /\ nextKey \in KeyIds \ {0} /\ nextKey \in Nat /\ nextKey' = nextKey + 1
         /\ nextKey' \in Nat \ {0} /\ nextKey <= nextKey'
         /\ ws.key < nextKey /\ \A d \in Admins : job[d].old < nextKey
  BY WorkspaceAssumption DEF IInv, Typed, NewKey, KeyIds, KeysMade

LEMMA JobFields ==
  ASSUME IInv, NEW d \in Admins
  PROVE  /\ job[d] \in Jobs /\ job[d].key \in KeyIds /\ job[d].old \in KeyIds
         /\ job[d].items \in SUBSET Contents /\ job[d].left \in SUBSET Contents
         /\ job[d].old < nextKey
  BY DEF IInv, Typed, Jobs, KeysMade

LEMMA KeyFields ==
  ASSUME IInv
  PROVE  /\ ws.key \in KeyIds /\ nextKey \in Nat \ {0}
         /\ Rewriting => ws.session.to \in KeyIds
         /\ Held(ws.items) \subseteq Contents
  BY WsFields DEF IInv, Typed, WsGood, Rewriting, Sessions, Held, Copies

\* What a device asks, and what it holds while it does.
LEMMA AskMove ==
  ASSUME IInv, Advance, NEW d \in Admins, NEW j \in Jobs, NEW r \in Requests, Ask(d, j, r),
         j.old < nextKey', r.op \notin UploadOps, Sound(r)',
         j.mode = "rewrite" /\ r.op # "begin" => Begun(j.key)',
         r.op = "begin" => r.key = j.key,
         r.op = "stage" => j.mode = "rewrite" /\ (Current(j.key)' => j.items = Held(ws'.items)),
         UNCHANGED writerVars, \A q \in late' : Sent(q), nextKey' \in Nat \ {0}, nextKey <= nextKey'
  PROVE  IInv'
<1> PICK i : i = [j EXCEPT !.req = r]
  OBVIOUS
<1>1. /\ i \in Jobs /\ i.req = r /\ i.mode = j.mode /\ i.key = j.key /\ i.items = j.items
      /\ i.old = j.old
  BY DEF Jobs
<1>2. /\ pc' \in [Admins -> Steps] /\ job' \in [Admins -> Jobs]
      /\ pc'[d] = "ask" /\ job'[d] = i
      /\ \A e \in Admins \ {d} : pc'[e] = pc[e] /\ job'[e] = job[e]
  <2>1. Set(d, "ask", i)
    BY DEF Ask
  <2> QED
    BY <1>1, <2>1, SetFacts DEF Steps
<1>3. (Current(job[d].key)' <=> Current(j.key)') /\ (Begun(job[d].key)' <=> Begun(j.key)')
  BY <1>1, <1>2 DEF Current, Begun
<1>4. JobSound(d)'
  BY <1>1, <1>2, <1>3 DEF JobSound, Works, Knows
<1>5. \A q : q = job'[d].req => Sound(q)' /\ q.op \notin UploadOps
  BY <1>1, <1>2
<1> QED
  BY <1>1, <1>2, <1>4, <1>5, AdminMove

\* A request that says nothing about the workspace but the keys it names.
LEMMA PlainSound ==
  ASSUME NEW r \in Requests, r.op \notin UploadOps \cup {"stage", "commit"},
         r.op = "replace" => r.key = r.expect, r.op = "begin" => r.expect < r.key,
         r.op \in {"enable", "fresh", "begin"} => r.key < nextKey
  PROVE  Sound(r)
  BY DEF Sound

LEMMA ChangeMove ==
  ASSUME IInv, NEW d \in Admins, SetUp(d) \/ FreshStart(d) \/ ChangeWords(d)
  PROVE  IInv'
<1> PICK j : j = [NoJob EXCEPT !.mode = "change"]
  OBVIOUS
<1>1. j \in Jobs /\ j.old = 0 /\ j.mode = "change"
  BY NoJobTyped DEF NoJob, Jobs
<1>2. Advance
  BY SameAdvances DEF SetUp, FreshStart, ChangeWords
<1>3. UNCHANGED writerVars /\ \A q \in late' : Sent(q)
  BY DEF SetUp, FreshStart, ChangeWords, Sent
<1>4. CASE SetUp(d) \/ FreshStart(d)
  <2> PICK k : k = nextKey
    OBVIOUS
  <2>1. k \in KeyIds \ {0} /\ nextKey' \in Nat \ {0} /\ nextKey <= nextKey' /\ k < nextKey'
    BY <1>4, NewKeyFacts DEF SetUp, FreshStart
  <2>2. PICK r \in Requests : r.op \in {"enable", "fresh"} /\ r.key = k /\ Ask(d, j, r)
    BY <1>4, <2>1, RequestKinds DEF SetUp, FreshStart
  <2>3. Sound(r)'
    BY <2>1, <2>2, PlainSound, Zenon DEF Sound, UploadOps
  <2>4. r.op \notin UploadOps /\ r.op # "begin" /\ r.op # "stage" /\ j.mode # "rewrite"
    BY <1>1, <2>2 DEF UploadOps
  <2>5. j.old < nextKey'
    BY <1>1, <2>1
  <2> QED
    BY <1>1, <1>2, <1>3, <2>1, <2>2, <2>3, <2>4, <2>5, AskMove
<1>5. CASE ChangeWords(d)
  <2> PICK k : k = ws.key
    OBVIOUS
  <2>1. k \in KeyIds /\ nextKey' \in Nat \ {0} /\ nextKey <= nextKey'
    BY <1>5, KeyFields DEF ChangeWords
  <2>2. PICK r \in Requests : r = Replace(k) /\ Ask(d, j, r)
    BY <1>5, <2>1, RequestKinds DEF ChangeWords
  <2>3. r.op = "replace" /\ r.key = r.expect
    BY <2>2 DEF Replace
  <2>4. Sound(r)'
    BY <2>3 DEF Sound, UploadOps
  <2>5. r.op \notin UploadOps /\ r.op # "begin" /\ r.op # "stage" /\ j.mode # "rewrite"
    BY <1>1, <2>3 DEF UploadOps
  <2>6. j.old < nextKey'
    BY <1>1, <2>1
  <2> QED
    BY <1>1, <1>2, <1>3, <2>1, <2>2, <2>4, <2>5, <2>6, AskMove
<1> QED
  BY <1>4, <1>5

LEMMA RewriteMove ==
  ASSUME IInv, NEW d \in Admins, Rewrite(d)
  PROVE  IInv'
<1> PICK k, o : k = nextKey /\ o = ws.key
  OBVIOUS
<1> PICK j : j = [NoJob EXCEPT !.mode = "rewrite", !.old = o, !.key = k]
  OBVIOUS
<1> PICK r : r = BeginRequest(d, o, k)
  OBVIOUS
<1>1. /\ k \in KeyIds \ {0} /\ nextKey' \in Nat \ {0} /\ nextKey <= nextKey' /\ k < nextKey'
      /\ o \in KeyIds /\ o < k /\ o < nextKey'
  <2>1. NewKey
    BY DEF Rewrite
  <2> QED
    BY <2>1, NewKeyFacts, KeyFields, KeysAreNumbers
<1>2. j \in Jobs /\ j.old = o /\ j.key = k /\ j.mode = "rewrite"
  BY <1>1, NoJobTyped DEF NoJob, Jobs
<1>3. r \in Requests /\ r.op = "begin" /\ r.key = k /\ r.expect = o
  BY <1>1, RequestKinds DEF BeginRequest
<1>4. Ask(d, j, r)
  BY DEF Rewrite
<1>5. Advance
  BY SameAdvances DEF Rewrite
<1>6. Sound(r)'
  BY <1>1, <1>3 DEF Sound, UploadOps
<1>7. r.op \notin UploadOps /\ r.op # "stage"
  BY <1>3 DEF UploadOps
<1>8. UNCHANGED writerVars /\ \A q \in late' : Sent(q)
  BY DEF Rewrite, Sent
<1> QED
  BY <1>1, <1>2, <1>3, <1>4, <1>5, <1>6, <1>7, <1>8, AskMove

LEMMA JoinMove ==
  ASSUME IInv, NEW d \in Admins, Resume(d) \/ AbortRewrite(d)
  PROVE  IInv'
<1> PICK k, o : k = ws.session.to /\ o = ws.key
  OBVIOUS
<1> PICK r : r = Hold(d)
  OBVIOUS
<1>1. /\ Rewriting /\ k \in KeyIds /\ o \in KeyIds /\ nextKey' \in Nat \ {0}
      /\ nextKey <= nextKey' /\ o < nextKey'
  BY KeyFields DEF Resume, AbortRewrite, IInv, KeysMade
<1>2. PICK j \in Jobs : j.key = k /\ j.old < nextKey' /\ Ask(d, j, r)
  <2>1. CASE Resume(d)
    <3> DEFINE j == [NoJob EXCEPT !.mode = "rewrite", !.old = o, !.key = k]
    <3>1. j \in Jobs /\ j.key = k /\ j.old = o
      BY <1>1, NoJobTyped DEF NoJob, Jobs
    <3>2. Ask(d, j, r)
      BY <2>1 DEF Resume
    <3> HIDE DEF j
    <3> QED BY <1>1, <3>1, <3>2
  <2>2. CASE AbortRewrite(d)
    <3> DEFINE j == [NoJob EXCEPT !.mode = "abort", !.key = k]
    <3>1. j \in Jobs /\ j.key = k /\ j.old = 0
      BY <1>1, NoJobTyped DEF NoJob, Jobs
    <3>2. Ask(d, j, r)
      BY <2>2 DEF AbortRewrite
    <3> HIDE DEF j
    <3> QED BY <1>1, <3>1, <3>2
  <2> QED BY <2>1, <2>2
<1>3. r \in Requests /\ r.op \in {"heartbeat", "take-over"}
  BY RequestKinds DEF Hold
<1>4. Advance /\ Begun(k)'
  BY <1>1, SameAdvances DEF Resume, AbortRewrite, Begun, Current, Rewriting
<1>5. Sound(r)'
  BY <1>3 DEF Sound, UploadOps
<1>6. r.op \notin UploadOps /\ r.op # "stage" /\ r.op # "begin"
  BY <1>3 DEF UploadOps
<1>7. UNCHANGED writerVars /\ \A q \in late' : Sent(q)
  BY DEF Resume, AbortRewrite, Sent
<1>8. Begun(j.key)'
  BY <1>2, <1>4 DEF Begun, Current
<1> QED
  BY <1>1, <1>2, <1>3, <1>4, <1>5, <1>6, <1>7, <1>8, AskMove

\* Nothing moves at the devices.
LEMMA ServerMove ==
  ASSUME IInv, Advance, UNCHANGED adminVars, UNCHANGED writerVars, \A r \in late' : Sent(r)
  PROVE  IInv'
<1>1. /\ pc' = pc /\ job' = job /\ nextKey' = nextKey /\ wpc' = wpc /\ wkey' = wkey
      /\ wreq' = wreq /\ puts' = puts /\ told' = told
  BY DEF adminVars, writerVars
<1>2. \A r : Sent(r)' => Sent(r)
  BY <1>1 DEF Sent
<1>n. nextKey \in Nat /\ nextKey <= nextKey'
  BY <1>1 DEF IInv, Typed
<1>3. \A r : Sent(r)' => Sound(r)'
  BY <1>1, <1>2, <1>n, SoundAdvances, PutsStay
<1>4. \A r, s : Sent(r)' /\ Sent(s)' => SameUpload(r, s)
  BY <1>2 DEF IInv
<1>5. \A e \in Admins : JobSound(e)'
  BY <1>1, JobAdvances
<1>6. Typed' /\ WsGood' /\ KeysMade'
  BY <1>1 DEF IInv, Typed, Advance, KeysMade
<1>7. \A u \in ws'.done : u[2] <= puts'[u[1]]
  BY <1>1, DoneAdvances, PutsStay
<1>8. \A c \in told' : Kept(c)'
  BY <1>1, ToldAdvances
<1> QED
  BY <1>3, <1>4, <1>5, <1>6, <1>7, <1>8 DEF IInv, SameUpload

LEMMA LeaseMove ==
  ASSUME IInv, Lapse \/ \E d \in Admins : KeepLease(d)
  PROVE  IInv'
<1>1. PICK live \in BOOLEAN : Rewriting /\ ws' = [ws EXCEPT !.session.live = live]
  BY DEF Lapse, KeepLease, Holds
<1>2. UNCHANGED adminVars /\ UNCHANGED writerVars /\ \A r \in late' : Sent(r)
  BY DEF Lapse, KeepLease, Sent
<1> QED
  BY <1>1, <1>2, LeaseAdvances, ServerMove

LEMMA DeliverMove ==
  ASSUME IInv, Deliver
  PROVE  IInv'
<1>1. PICK r \in late : \E a \in Replies(r) : Serve(r, a)
  BY DEF Deliver
<1>2. Sent(r) /\ \A q \in late' : Sent(q)
  BY DEF Deliver, Sent
<1>3. Advance
  BY <1>1, <1>2, ServeAdvances
<1> QED
  BY <1>2, <1>3, ServerMove DEF Deliver

\* Requests whose answers do not arrive, and commands that are stopped.
LEMMA FaultMove ==
  ASSUME IInv, NEW d \in Admins, TimedOut(d) \/ Crash(d)
  PROVE  IInv'
<1>1. Advance /\ UNCHANGED writerVars /\ nextKey' = nextKey /\ nextKey \in Nat \ {0}
  BY SameAdvances DEF TimedOut, Crash, IInv, Typed
<1>2. \A q \in late' : Sent(q)
  BY DEF TimedOut, Crash, Sent
<1>3. CASE Fail(d)
  BY <1>1, <1>2, <1>3, FailMove
<1>4. CASE TimedOut(d) /\ Retry(d)
  <2>1. UNCHANGED adminVars
    BY <1>4 DEF TimedOut, Retry, adminVars
  <2> QED
    BY <1>1, <1>2, <2>1, ServerMove
<1> QED
  BY <1>3, <1>4 DEF TimedOut, Crash

\* A device works on what it knows of the re-encryption under way.
LEMMA WorkMove ==
  ASSUME IInv, Advance, NEW d \in Admins, NEW j \in Jobs, NEW step \in {"list", "copy", "verify"},
         Set(d, step, j), Begun(j.key)', step # "list" /\ Current(j.key)' => j.items = Held(ws'.items),
         step = "verify" /\ Current(j.key)' =>
           \A c \in j.items \ j.left : Copy(c, j.key, TRUE) \in ws'.session.staged,
         j.mode = "rewrite", j.old < nextKey', UNCHANGED writerVars, \A q \in late' : Sent(q),
         nextKey' \in Nat \ {0}, nextKey <= nextKey'
  PROVE  IInv'
<1>1. /\ pc' \in [Admins -> Steps] /\ job' \in [Admins -> Jobs]
      /\ pc'[d] = step /\ job'[d] = j
      /\ \A e \in Admins \ {d} : pc'[e] = pc[e] /\ job'[e] = job[e]
  BY SetFacts DEF Steps
<1>2. (Current(job[d].key)' <=> Current(j.key)') /\ (Begun(job[d].key)' <=> Begun(j.key)')
  BY <1>1 DEF Current, Begun
<1>3. (Knows(d)' => step # "list") /\ pc'[d] # "ask"
  BY <1>1 DEF Knows
<1>4. JobSound(d)'
  BY <1>1, <1>2, <1>3 DEF JobSound
<1> QED
  BY <1>1, <1>3, <1>4, AdminMove

LEMMA NextCopyMove ==
  ASSUME IInv, Advance, NEW d \in Admins, NEW j \in Jobs, NextCopy(d, j),
         Begun(j.key)', Current(j.key)' => j.items = Held(ws'.items),
         j.mode = "rewrite", j.old < nextKey', UNCHANGED writerVars, \A q \in late' : Sent(q),
         nextKey' \in Nat \ {0}, nextKey <= nextKey'
  PROVE  IInv'
<1>1. CASE j.left = {}
  <2> PICK i : i = [j EXCEPT !.left = j.items]
    OBVIOUS
  <2>1. /\ i \in Jobs /\ i.key = j.key /\ i.old = j.old /\ i.items = j.items
        /\ i.mode = j.mode /\ i.items \ i.left = {}
    BY DEF Jobs
  <2>2. Set(d, "verify", i)
    BY <1>1 DEF NextCopy
  <2>3. /\ Begun(i.key)' /\ (Current(i.key)' => i.items = Held(ws'.items))
        /\ \A c \in i.items \ i.left : Copy(c, i.key, TRUE) \in ws'.session.staged
    BY <2>1
  <2> QED
    BY <2>1, <2>2, <2>3, WorkMove
<1>2. CASE j.left # {}
  <2>1. Set(d, "copy", j)
    BY <1>2 DEF NextCopy
  <2> QED
    BY <2>1, WorkMove
<1> QED
  BY <1>1, <1>2

\* What a device that works knows, while the server stands still.
LEMMA WorkFacts ==
  ASSUME IInv, NEW d \in Admins, ws' = ws, Works(d), NEW k, k = job[d].key
  PROVE  /\ k \in KeyIds /\ Begun(k) /\ Begun(k)' /\ (Current(k)' <=> Current(k))
         /\ Knows(d) /\ Current(k) => job[d].items = Held(ws'.items)
<1>1. JobSound(d) /\ k \in KeyIds
  BY JobFields DEF IInv
<1> QED
  BY <1>1 DEF JobSound, Begun, Current, Rewriting

LEMMA ListMove ==
  ASSUME IInv, NEW d \in Admins, List(d)
  PROVE  IInv'
<1> PICK k : k = job[d].key
  OBVIOUS
<1> PICK j : j = [job[d] EXCEPT !.items = Held(ws.items), !.left = Held(ws.items)]
  OBVIOUS
<1>1. /\ j \in Jobs /\ j.key = k /\ j.items = Held(ws.items) /\ j.old = job[d].old
      /\ j.mode = job[d].mode
  BY JobFields, KeyFields DEF Jobs
<1>2. ws' = ws /\ Advance /\ NextCopy(d, j) /\ nextKey' = nextKey /\ UNCHANGED writerVars
      /\ \A q \in late' : Sent(q)
  BY SameAdvances DEF List, Sent
<1>3. Begun(j.key)'
  <2>1. Works(d)
    BY DEF List, Works
  <2> QED
    BY <1>1, <1>2, <2>1, WorkFacts
<1>4. j.items = Held(ws'.items) /\ j.mode = "rewrite"
  BY <1>1, <1>2 DEF List, IInv, JobSound
<1>5. j.old < nextKey' /\ nextKey' \in Nat \ {0} /\ nextKey <= nextKey'
  BY <1>1, <1>2, JobFields, KeyFields
<1> QED
  BY <1>1, <1>2, <1>3, <1>4, <1>5, NextCopyMove

LEMMA CopyMove ==
  ASSUME IInv, NEW d \in Admins, CopyItem(d)
  PROVE  IInv'
<1> PICK k : k = job[d].key
  OBVIOUS
<1> PICK c : c = Oldest(job[d].left)
  OBVIOUS
<1> PICK j : j = [job[d] EXCEPT !.left = @ \ {c}]
  OBVIOUS
<1>1. j \in Jobs /\ j.key = k /\ j.items = job[d].items /\ j.old = job[d].old /\ j.mode = job[d].mode
  BY JobFields DEF Jobs
<1>2. /\ ws' = ws /\ Advance /\ nextKey' = nextKey /\ UNCHANGED writerVars
      /\ \A q \in late' : Sent(q)
  BY SameAdvances DEF CopyItem, Sent
<1>3. Works(d) /\ Knows(d)
  BY DEF CopyItem, Works, Knows
<1>4. k \in KeyIds /\ Begun(k)' /\ (Current(k)' => job[d].items = Held(ws'.items))
  BY <1>2, <1>3, WorkFacts
<1>5. j.old < nextKey' /\ nextKey' \in Nat \ {0} /\ nextKey <= nextKey'
  BY <1>1, <1>2, JobFields, KeyFields
<1>6. CASE Fail(d)
  BY <1>2, <1>5, <1>6, FailMove
<1>m. j.mode = "rewrite"
  BY <1>1 DEF CopyItem, IInv, JobSound
<1>7. CASE SkipStaged(d, c)
  <2>1. NextCopy(d, j)
    BY <1>7 DEF SkipStaged
  <2> QED
    BY <1>1, <1>2, <1>4, <1>5, <1>m, <2>1, NextCopyMove
<1>8. ASSUME Readable(c, job[d].old), NEW w \in BOOLEAN,
             Ask(d, j, [op |-> "stage", who |-> d, key |-> k, content |-> c, whole |-> w])
      PROVE  IInv'
  <2> PICK r : r = [op |-> "stage", who |-> d, key |-> k, content |-> c, whole |-> w]
    OBVIOUS
  <2>1. c \in Held(ws.items) /\ c \in Contents
    BY <1>8, KeyFields DEF Readable, Held
  <2>2. r \in Requests /\ r.op = "stage" /\ r.key = k /\ r.content = c
    BY <1>4, <2>1, RequestKinds
  <2>3. Sound(r)'
    BY <1>2, <1>4, <2>1, <2>2 DEF Sound, UploadOps
  <2>4. r.op \notin UploadOps /\ r.op # "begin" /\ Ask(d, j, r)
    BY <1>8, <2>2 DEF UploadOps
  <2>6. Begun(j.key)' /\ (Current(j.key)' => j.items = Held(ws'.items))
    BY <1>1, <1>4
  <2> QED
    BY <1>1, <1>2, <1>5, <2>2, <2>3, <2>4, <1>m, <2>6, AskMove
<1> QED
  BY <1>6, <1>7, <1>8 DEF CopyItem

LEMMA VerifyMove ==
  ASSUME IInv, NEW d \in Admins, Verify(d)
  PROVE  IInv'
<1> PICK k : k = job[d].key
  OBVIOUS
<1>0. JobSound(d) /\ job[d].mode = "rewrite"
  BY DEF IInv, JobSound, Verify
<1>2. /\ ws' = ws /\ Advance /\ nextKey' = nextKey /\ UNCHANGED writerVars
      /\ \A q \in late' : Sent(q)
  BY SameAdvances DEF Verify, Sent
<1>3. Works(d) /\ Knows(d)
  BY DEF Verify, Works, Knows
<1>4. /\ k \in KeyIds /\ Begun(k)' /\ (Current(k)' <=> Current(k))
      /\ (Current(k)' => job[d].items = Held(ws'.items))
  BY <1>2, <1>3, WorkFacts
<1>5. job[d].old < nextKey' /\ nextKey' \in Nat \ {0} /\ nextKey <= nextKey'
  BY <1>2, JobFields, KeyFields
<1>6. ASSUME Current(k) PROVE \A c \in job[d].items \ job[d].left : Copy(c, k, TRUE) \in ws'.session.staged
  BY <1>0, <1>2, <1>6 DEF JobSound, Verify
<1>7. CASE Fail(d)
  BY <1>2, <1>5, <1>7, FailMove
<1>8. CASE job[d].left = {} /\ Ask(d, job[d], [op |-> "commit", who |-> d, key |-> job[d].key])
  <2> PICK r : r = [op |-> "commit", who |-> d, key |-> k]
    OBVIOUS
  <2> PICK j : j = job[d]
    OBVIOUS
  <2>1. r \in Requests /\ r.op = "commit" /\ r.key = k
    BY <1>4, RequestKinds
  <2>2. Current(k)' => AllCopied(k)'
    BY <1>4, <1>6, <1>8 DEF AllCopied
  <2>3. Sound(r)'
    BY <1>4, <2>1, <2>2 DEF Sound, UploadOps
  <2>4. /\ r.op \notin UploadOps /\ r.op # "begin" /\ r.op # "stage" /\ Ask(d, j, r)
        /\ j \in Jobs /\ j.key = k /\ j.old < nextKey'
    BY <1>5, <1>8, <2>1, JobFields DEF UploadOps
  <2>5. Begun(j.key)'
    BY <1>4, <2>4
  <2> QED
    BY <1>2, <1>5, <2>1, <2>3, <2>4, <2>5, AskMove
<1>9. ASSUME NEW c, StagedWhole(d, c), Set(d, "verify", [job[d] EXCEPT !.left = @ \ {c}])
      PROVE  IInv'
  <2> PICK j : j = [job[d] EXCEPT !.left = @ \ {c}]
    OBVIOUS
  <2>1. /\ j \in Jobs /\ j.key = k /\ j.items = job[d].items /\ j.old = job[d].old
        /\ j.mode = job[d].mode /\ j.left = job[d].left \ {c}
    BY JobFields DEF Jobs
  <2>2. Copy(c, k, TRUE) \in ws'.session.staged
    BY <1>2, <1>9 DEF StagedWhole
  <2>3. Current(k)' => \A b \in j.items \ j.left : Copy(b, k, TRUE) \in ws'.session.staged
    BY <1>4, <1>6, <2>1, <2>2
  <2>4. Begun(j.key)' /\ (Current(j.key)' => j.items = Held(ws'.items)) /\ j.old < nextKey'
    BY <1>4, <1>5, <2>1
  <2> QED
    BY <1>0, <1>2, <1>5, <1>9, <2>1, <2>3, <2>4, WorkMove
<1> QED
  BY <1>7, <1>8, <1>9 DEF Verify

\* A re-encryption that was begun is under way, whoever is told so.
LEMMA BeginAnswered ==
  ASSUME IInv, NEW r \in Requests, r.op = "begin", Serve(r, "ok")
  PROVE  Begun(r.key)'
<1>1. CASE Replays(r)
  BY <1>1 DEF Serve, Replays, Holds, Begun, Current, Rewriting
<1>2. CASE ~Replays(r)
  <2>1. ws' = [ws EXCEPT !.session = [holder |-> r.who, live |-> TRUE, to |-> r.key, staged |-> {}]]
    BY <1>2 DEF Serve, Changed
  <2>2. ws'.session = [holder |-> r.who, live |-> TRUE, to |-> r.key, staged |-> {}]
    BY <2>1 DEF IInv, WsGood, WorkspaceTypeOK
  <2>3. ws'.session.to = r.key /\ ws'.session \in Sessions
    BY <2>2, RequestFields DEF Sessions
  <2> QED
    BY <2>3, NoSessionAssumption DEF Begun, Current, Rewriting
<1> QED
  BY <1>1, <1>2

\* After a refused begin the device tries once more, under another key.
LEMMA BeginAgainMove ==
  ASSUME IInv, Advance, NEW d \in Admins, BeginAgain(d), UNCHANGED writerVars,
         \A q \in late' : Sent(q)
  PROVE  IInv'
<1> PICK k : k = nextKey
  OBVIOUS
<1> PICK j : j = [job[d] EXCEPT !.key = k, !.again = TRUE]
  OBVIOUS
<1> PICK r : r = BeginRequest(d, job[d].old, k)
  OBVIOUS
<1>1. /\ k \in KeyIds \ {0} /\ nextKey' \in Nat \ {0} /\ nextKey <= nextKey' /\ k < nextKey'
      /\ job[d].old < k /\ job[d].old < nextKey'
  <2>1. NewKey
    BY DEF BeginAgain
  <2> QED
    BY <2>1, NewKeyFacts, JobFields, KeysAreNumbers
<1>2. j \in Jobs /\ j.old = job[d].old /\ j.key = k
  BY <1>1, JobFields DEF Jobs
<1>3. r \in Requests /\ r.op = "begin" /\ r.key = k /\ r.expect = job[d].old
  BY <1>1, JobFields, RequestKinds DEF BeginRequest
<1>4. Ask(d, j, r)
  BY DEF BeginAgain
<1>5. Sound(r)'
  BY <1>1, <1>3 DEF Sound, UploadOps
<1>6. r.op \notin UploadOps /\ r.op # "stage"
  BY <1>3 DEF UploadOps
<1> QED
  BY <1>1, <1>2, <1>3, <1>4, <1>5, <1>6, AskMove

\* An answer moves the device on to its next step.
LEMMA ProceedMove ==
  ASSUME IInv, NEW d \in Admins, pc[d] = "ask", Serve(job[d].req, "ok"), Proceed(d),
         UNCHANGED <<off, writerVars, late, events>>, nextKey' = nextKey
  PROVE  IInv'
<1> PICK k : k = job[d].key
  OBVIOUS
<1> PICK r : r = job[d].req
  OBVIOUS
<1> PICK j : j = [job[d] EXCEPT !.req = NoReq]
  OBVIOUS
<1>1. Sent(r) /\ r \in Requests /\ Serve(r, "ok") /\ JobSound(d)
  BY DEF Sent, IInv, Sound
<1>2. Advance
  BY <1>1, ServeAdvances
<1>3. /\ j \in Jobs /\ j.key = k /\ j.items = job[d].items /\ j.old = job[d].old
      /\ j.mode = job[d].mode /\ j.left = job[d].left /\ k \in KeyIds
  BY JobFields DEF Jobs
<1>4. /\ UNCHANGED writerVars /\ \A q \in late' : Sent(q)
  BY DEF Sent
<1>5. j.old < nextKey' /\ nextKey' \in Nat \ {0} /\ nextKey <= nextKey'
  BY <1>3, JobFields, KeyFields
<1>6. CASE r.op \in {"begin", "heartbeat", "take-over"} /\ job[d].mode = "rewrite"
  <2>1. Set(d, "list", j)
    BY <1>6 DEF Proceed
  <2>2. Begun(k)'
    <3>1. CASE r.op = "begin"
      <4>1. r.key = k
        BY <1>1, <3>1 DEF JobSound
      <4>2. Begun(r.key)'
        BY <1>1, <3>1, BeginAnswered
      <4> QED
        BY <4>1, <4>2
    <3>2. CASE r.op # "begin"
      BY <1>1, <1>2, <1>3, <1>6, <3>2 DEF JobSound, Works, Advance, Onward
    <3> QED
      BY <3>1, <3>2
  <2>3. Begun(j.key)' /\ j.mode = "rewrite"
    BY <1>3, <1>6, <2>2
  <2> QED
    BY <1>2, <1>3, <1>4, <1>5, <2>1, <2>3, WorkMove
<1>7. CASE r.op \in {"heartbeat", "take-over"} /\ job[d].mode = "abort"
  <2> PICK i : i = job[d]
    OBVIOUS
  <2> PICK q : q = [op |-> "abort", who |-> d, key |-> k]
    OBVIOUS
  <2>1. Ask(d, i, q) /\ i \in Jobs /\ i.old < nextKey' /\ i.mode = "abort"
    BY <1>3, <1>5, <1>7, JobFields DEF Proceed
  <2>2. q \in Requests /\ q.op = "abort"
    BY <1>3, RequestKinds
  <2>3. Sound(q)'
    BY <2>2 DEF Sound, UploadOps
  <2>4. q.op \notin UploadOps /\ q.op # "begin" /\ q.op # "stage" /\ i.mode # "rewrite"
    BY <2>1, <2>2 DEF UploadOps
  <2> QED
    BY <1>2, <1>4, <1>5, <2>1, <2>2, <2>3, <2>4, AskMove
<1>8. CASE r.op = "stage"
  <2>1. NextCopy(d, j)
    BY <1>8 DEF Proceed
  <2>2. Works(d) /\ Knows(d) /\ j.mode = "rewrite" /\ Begun(k)
    BY <1>1, <1>3, <1>8 DEF JobSound, Works, Knows
  <2>3. Begun(k)' /\ (Current(k)' => Current(k) /\ Held(ws'.items) = Held(ws.items))
    BY <1>2, <1>3, <2>2 DEF Advance, Onward
  <2>4. Current(k)' => job[d].items = Held(ws'.items)
    BY <1>1, <2>2, <2>3 DEF JobSound
  <2>5. Begun(j.key)' /\ (Current(j.key)' => j.items = Held(ws'.items))
    BY <1>3, <2>3, <2>4
  <2> QED
    BY <1>2, <1>3, <1>4, <1>5, <2>1, <2>2, <2>5, NextCopyMove
<1>9. CASE Fail(d)
  BY <1>2, <1>4, <1>5, <1>9, FailMove
<1> QED
  BY <1>6, <1>7, <1>8, <1>9 DEF Proceed

LEMMA AnsweredMove ==
  ASSUME IInv, NEW d \in Admins, Answered(d)
  PROVE  IInv'
<1>1. PICK a : /\ Serve(job[d].req, a)
               /\ \/ a = "ok" /\ Proceed(d) /\ UNCHANGED nextKey
                  \/ BeginAgain(d)
                  \/ Fail(d) /\ UNCHANGED nextKey
  BY DEF Answered
<1>2. pc[d] = "ask" /\ UNCHANGED <<off, writerVars, late, events>>
  BY DEF Answered
<1>3. Sent(job[d].req)
  BY <1>2 DEF Sent
<1>4. Advance
  BY <1>1, <1>3, ServeAdvances
<1>5. UNCHANGED writerVars /\ \A q \in late' : Sent(q)
  BY <1>2 DEF Sent
<1>6. CASE a = "ok" /\ Proceed(d) /\ UNCHANGED nextKey
  BY <1>1, <1>2, <1>6, ProceedMove
<1>7. CASE BeginAgain(d)
  BY <1>4, <1>5, <1>7, BeginAgainMove
<1>8. CASE Fail(d) /\ UNCHANGED nextKey
  <2>1. nextKey' \in Nat \ {0} /\ nextKey <= nextKey'
    BY <1>8, KeyFields
  <2> QED
    BY <1>4, <1>5, <1>8, <2>1, FailMove
<1> QED
  BY <1>1, <1>6, <1>7, <1>8

(***************************************************************************)
(* The writers' steps.                                                     *)
(***************************************************************************)
LEMMA WriterFields ==
  ASSUME IInv, NEW c \in Writers
  PROVE  /\ wkey[c] \in KeyIds /\ wreq[c] \in Requests \cup {NoReq}
         /\ puts[c] \in Nat /\ puts[c] <= MaxPuts
  BY WorkspaceAssumption DEF IInv, Typed

LEMMA WSetFacts ==
  ASSUME IInv, NEW c \in Writers, NEW step \in {"idle", "ask", "settle"},
         NEW r \in Requests \cup {NoReq}, WSet(c, step, r)
  PROVE  /\ wpc' \in [Writers -> {"idle", "ask", "settle"}]
         /\ wreq' \in [Writers -> Requests \cup {NoReq}]
         /\ wpc'[c] = step /\ wreq'[c] = r
         /\ \A e \in Writers \ {c} : wpc'[e] = wpc[e] /\ wreq'[e] = wreq[e]
  BY DEF IInv, Typed, WSet

\* A writer that does not ask anew.
LEMMA QuietMove ==
  ASSUME IInv, Advance, NEW c \in Writers, NEW step \in {"idle", "settle"},
         NEW r \in Requests \cup {NoReq}, WSet(c, step, r), UNCHANGED <<wkey, puts>>,
         UNCHANGED adminVars, \A q \in late' : Sent(q), \A k \in told' : Kept(k)'
  PROVE  IInv'
<1>1. /\ wpc' \in [Writers -> {"idle", "ask", "settle"}]
      /\ wreq' \in [Writers -> Requests \cup {NoReq}] /\ wpc'[c] # "ask"
      /\ \A e \in Writers \ {c} : wpc'[e] = wpc[e] /\ wreq'[e] = wreq[e]
  BY WSetFacts
<1>2. /\ wkey' \in [Writers -> KeyIds] /\ puts' \in [Writers -> 0..MaxPuts]
      /\ \A e \in Writers : puts[e] <= puts'[e]
  BY WorkspaceAssumption DEF IInv, Typed
<1> QED
  BY <1>1, <1>2, WriterMove

LEMMA OpenMove ==
  ASSUME IInv, NEW c \in Writers, OpenWorkspace(c)
  PROVE  IInv'
<1>1. /\ wpc' = wpc /\ wreq' = wreq /\ puts' = puts /\ told' = told /\ late' = late
      /\ ws' = ws /\ UNCHANGED adminVars /\ wkey' = [wkey EXCEPT ![c] = ws.key]
      /\ wpc[c] = "idle"
  BY DEF OpenWorkspace
<1>2. Advance
  BY <1>1, SameAdvances
<1>3. /\ wpc' \in [Writers -> {"idle", "ask", "settle"}]
      /\ wreq' \in [Writers -> Requests \cup {NoReq}] /\ wkey' \in [Writers -> KeyIds]
      /\ puts' \in [Writers -> 0..MaxPuts]
  BY <1>1, KeyFields DEF IInv, Typed
<1>4. \A e \in Writers : puts[e] <= puts'[e]
  BY <1>1, PutsStay
<1>5. (\A q \in late' : Sent(q)) /\ \A k \in told' : Kept(k)'
  BY <1>1, <1>2, ToldAdvances DEF Sent
<1>6. wpc'[c] # "ask" /\ \A e \in Writers \ {c} : wpc'[e] = wpc[e] /\ wreq'[e] = wreq[e]
  BY <1>1
<1> QED
  BY <1>1, <1>2, <1>3, <1>4, <1>5, <1>6, WriterMove

\* An upload is one nobody has heard of.
LEMMA PutMove ==
  ASSUME IInv, NEW c \in Writers, NEW k \in Contents, Put(c, k)
  PROVE  IInv'
<1> PICK n : n = puts[c] + 1
  OBVIOUS
<1> PICK y : y = wkey[c]
  OBVIOUS
<1> PICK r : r = [op |-> "begin-upload", id |-> <<c, n>>, content |-> k, key |-> y, expect |-> y]
  OBVIOUS
<1>1. /\ puts[c] < MaxPuts /\ puts' = [puts EXCEPT ![c] = @ + 1] /\ wkey' = wkey /\ late' = late
      /\ told' = told /\ ws' = ws /\ UNCHANGED adminVars
  BY DEF Put
<1>2. n \in 1..MaxPuts /\ y \in KeyIds /\ puts[c] < n
  BY <1>1, WriterFields, WorkspaceAssumption
<1>3. puts' \in [Writers -> 0..MaxPuts] /\ puts'[c] = n /\ \A e \in Writers : puts[e] <= puts'[e]
  BY <1>1, <1>2, WorkspaceAssumption DEF IInv, Typed
<1>4. WSet(c, "ask", r)
  BY <1>3 DEF Put, WAsk, Expected
<1>5. /\ r \in Requests /\ r.op = "begin-upload" /\ r.id = <<c, n>> /\ r.key = r.expect
      /\ r.id[1] = c /\ r.id[2] = n
  BY <1>2 DEF Requests, UploadOps, Uploads
<1>6. r.id \notin ws'.done
  <2>1. r.id \in ws.done => n <= puts[c]
    BY <1>5 DEF IInv
  <2> QED
    BY <1>1, <1>2, <2>1, WriterFields
<1>7. Sound(r)'
  <2>1. r.op \in UploadOps /\ r.op \notin {"replace", "begin", "enable", "fresh", "stage", "commit"}
    BY <1>5 DEF UploadOps
  <2>2. r.id[2] <= puts'[r.id[1]]
    BY <1>2, <1>3, <1>5
  <2> QED
    BY <1>5, <1>6, <2>1, <2>2 DEF Sound
<1>8. ASSUME NEW s, Sent(s) PROVE SameUpload(r, s)
  <2>1. s.op \in UploadOps /\ s.id = r.id => n <= puts[c]
    BY <1>5, <1>8 DEF IInv, Sound
  <2> QED
    BY <1>2, <2>1, WriterFields DEF SameUpload
<1>9. Advance
  BY <1>1, SameAdvances
<1>10. (\A q \in late' : Sent(q)) /\ \A t \in told' : Kept(t)'
  BY <1>1, <1>9, ToldAdvances DEF Sent
<1>11. /\ wpc' \in [Writers -> {"idle", "ask", "settle"}]
       /\ wreq' \in [Writers -> Requests \cup {NoReq}] /\ wkey' \in [Writers -> KeyIds]
       /\ wreq'[c] = r /\ \A e \in Writers \ {c} : wpc'[e] = wpc[e] /\ wreq'[e] = wreq[e]
  BY <1>1, <1>4, <1>5, WSetFacts DEF IInv, Typed
<1>12. \A q : q = wreq'[c] => Sound(q)' /\ \A s : Sent(s) => SameUpload(q, s)
  BY <1>7, <1>8, <1>11
<1> QED
  BY <1>1, <1>3, <1>9, <1>10, <1>11, <1>12, WriterMove

LEMMA DeleteMove ==
  ASSUME IInv, NEW c \in Writers, NEW k \in Contents, Delete(c, k)
  PROVE  IInv'
<1> PICK r : r = [op |-> "delete", content |-> k, expect |-> wkey[c]]
  OBVIOUS
<1>1. /\ puts' = puts /\ wkey' = wkey /\ late' = late /\ told' = told /\ ws' = ws
      /\ UNCHANGED adminVars /\ WSet(c, "ask", r)
  BY DEF Delete, WAsk, Expected
<1>2. r \in Requests /\ r.op = "delete"
  BY WriterFields DEF Requests
<1>3. Sound(r)' /\ \A s : Sent(s) => SameUpload(r, s)
  BY <1>2 DEF Sound, SameUpload, UploadOps
<1>4. Advance
  BY <1>1, SameAdvances
<1>5. (\A q \in late' : Sent(q)) /\ \A t \in told' : Kept(t)'
  BY <1>1, <1>4, ToldAdvances DEF Sent
<1>6. /\ wpc' \in [Writers -> {"idle", "ask", "settle"}]
      /\ wreq' \in [Writers -> Requests \cup {NoReq}] /\ wkey' \in [Writers -> KeyIds]
      /\ wreq'[c] = r /\ \A e \in Writers \ {c} : wpc'[e] = wpc[e] /\ wreq'[e] = wreq[e]
  BY <1>1, <1>2, WSetFacts DEF IInv, Typed
<1>7. \A q : q = wreq'[c] => Sound(q)' /\ \A s : Sent(s) => SameUpload(q, s)
  BY <1>3, <1>6
<1>8. puts' \in [Writers -> 0..MaxPuts] /\ \A e \in Writers : puts[e] <= puts'[e]
  BY <1>1, PutsStay DEF IInv, Typed
<1> QED
  BY <1>1, <1>4, <1>5, <1>6, <1>7, <1>8, WriterMove

\* What an upload is answered is so.
LEMMA UploadAnswered ==
  ASSUME IInv, NEW r \in Requests, Sent(r), NEW a, Serve(r, a),
         a = "present" \/ (a = "ok" /\ r.op = "commit-upload")
  PROVE  Kept(r.content)'
<1>1. Advance
  BY ServeAdvances
<1>2. CASE a = "present"
  <2>1. r.op \in ReqOps /\ "present" \in Replies(r) /\ ws' = ws
    BY <1>2, RequestFields DEF Serve
  <2>2. r.content \in Held(ws.items)
    BY <2>1 DEF Replies, WriteReply, SessionReply, ReqOps
  <2> QED
    BY <2>1, <2>2 DEF Kept
<1>3. CASE a = "ok" /\ r.op = "commit-upload"
  <2>1. r.id \in ws'.done
    <3>1. ws' = Changed(r)
      BY <1>3 DEF Serve, Replays
    <3>2. CASE r.id \in ws.done
      BY <1>3, <3>1, <3>2 DEF Changed
    <3>3. CASE r.id \notin ws.done
      <4> PICK its : its = IF r.content \in Held(ws.items) THEN ws.items
                           ELSE ws.items \cup {Copy(r.content, r.key, TRUE)}
        OBVIOUS
      <4>1. ws' = [ws EXCEPT !.done = @ \cup {r.id}, !.items = its]
        BY <1>3, <3>1, <3>3 DEF Changed
      <4>2. WorkspaceTypeOK
        BY DEF IInv, WsGood
      <4> QED
        BY <4>1, <4>2 DEF WorkspaceTypeOK
    <3> QED
      BY <3>2, <3>3
  <2>2. r.op \in UploadOps
    BY <1>3 DEF UploadOps
  <2> QED
    BY <1>1, <2>1, <2>2 DEF Advance
<1> QED
  BY <1>2, <1>3

LEMMA WAnsweredMove ==
  ASSUME IInv, NEW c \in Writers, WAnswered(c)
  PROVE  IInv'
<1> PICK r : r = wreq[c]
  OBVIOUS
<1>1. /\ wpc[c] = "ask" /\ UNCHANGED adminVars /\ wkey' = wkey /\ puts' = puts /\ late' = late
  BY DEF WAnswered
<1>2. Sent(r) /\ Sound(r) /\ r \in Requests
  BY <1>1 DEF Sent, IInv, Sound
<1>3. PICK a : /\ Serve(r, a)
               /\ \/ /\ r.op = "begin-upload" /\ WAsk(c, [r EXCEPT !.op = "commit-upload"])
                     /\ UNCHANGED told
                  \/ /\ a = "present" \/ (a = "ok" /\ r.op = "commit-upload")
                     /\ WDone(c) /\ Tell(r.content)
                  \/ WSet(c, "settle", r) /\ UNCHANGED told
                  \/ WDone(c) /\ UNCHANGED told
  BY DEF WAnswered
<1>4. Advance
  BY <1>2, <1>3, ServeAdvances
<1>5. \A q \in late' : Sent(q)
  BY <1>1 DEF Sent
<1>6. ASSUME UNCHANGED told PROVE \A t \in told' : Kept(t)'
  BY <1>4, <1>6, ToldAdvances
<1>7. CASE r.op = "begin-upload" /\ WAsk(c, [r EXCEPT !.op = "commit-upload"]) /\ UNCHANGED told
  <2> PICK q : q = [r EXCEPT !.op = "commit-upload"]
    OBVIOUS
  <2>1. r \in [op : UploadOps, id : Uploads, content : Contents, key : KeyIds, expect : KeyIds]
    BY <1>2, <1>7 DEF Requests, UploadOps
  <2>2. /\ q \in Requests /\ q.op = "commit-upload" /\ q.id = r.id /\ q.content = r.content
        /\ q.key = r.key /\ q.expect = r.expect
    BY <2>1 DEF Requests, UploadOps
  <2>3. /\ r.op \in UploadOps /\ q.op \in UploadOps
        /\ q.op \notin {"replace", "begin", "enable", "fresh", "stage", "commit"}
    BY <1>7, <2>2 DEF UploadOps
  <2>4. Sound(q)'
    <3>1. r.key = r.expect /\ r.id[2] <= puts[r.id[1]]
      BY <1>2, <2>3 DEF Sound
    <3>2. r.id \in ws'.done => Kept(r.content)'
      BY <1>2, <1>4, <2>3 DEF Advance
    <3> QED
      BY <1>1, <2>2, <2>3, <3>1, <3>2 DEF Sound
  <2>5. \A s : Sent(s) => SameUpload(q, s)
    BY <1>2, <2>2, <2>3 DEF IInv, SameUpload
  <2>6. WSet(c, "ask", q)
    BY <1>7 DEF WAsk
  <2>7. /\ wpc' \in [Writers -> {"idle", "ask", "settle"}]
        /\ wreq' \in [Writers -> Requests \cup {NoReq}] /\ wkey' \in [Writers -> KeyIds]
        /\ wreq'[c] = q /\ \A e \in Writers \ {c} : wpc'[e] = wpc[e] /\ wreq'[e] = wreq[e]
    BY <1>1, <2>2, <2>6, WSetFacts DEF IInv, Typed
  <2>8. puts' \in [Writers -> 0..MaxPuts] /\ \A e \in Writers : puts[e] <= puts'[e]
    BY <1>1, PutsStay DEF IInv, Typed
  <2>9. \A p : p = wreq'[c] => Sound(p)' /\ \A s : Sent(s) => SameUpload(p, s)
    BY <2>4, <2>5, <2>7
  <2> QED
    BY <1>1, <1>4, <1>5, <1>6, <1>7, <2>7, <2>8, <2>9, WriterMove
<1>8. CASE WDone(c) /\ \A t \in told' : Kept(t)'
  <2>1. WSet(c, "idle", NoReq)
    BY <1>8 DEF WDone
  <2> QED
    BY <1>1, <1>4, <1>5, <1>8, <2>1, QuietMove
<1>9. CASE (a = "present" \/ (a = "ok" /\ r.op = "commit-upload")) /\ WDone(c) /\ Tell(r.content)
  <2>1. Kept(r.content)'
    BY <1>2, <1>3, <1>9, UploadAnswered
  <2>2. told' = told \cup {r.content}
    BY <1>9 DEF Tell
  <2>3. \A t \in told' : Kept(t)'
    BY <1>4, <2>1, <2>2, ToldAdvances
  <2> QED
    BY <1>8, <1>9, <2>3
<1>10. CASE WSet(c, "settle", r) /\ UNCHANGED told
  BY <1>1, <1>2, <1>4, <1>5, <1>6, <1>10, QuietMove
<1> QED
  BY <1>3, <1>6, <1>7, <1>8, <1>9, <1>10

LEMMA SettleMove ==
  ASSUME IInv, NEW c \in Writers, Settle(c)
  PROVE  IInv'
<1>1. /\ ws' = ws /\ UNCHANGED adminVars /\ UNCHANGED <<wkey, puts>> /\ late' = late
      /\ WSet(c, "idle", NoReq)
  BY DEF Settle, WDone
<1>2. Advance
  BY <1>1, SameAdvances
<1>3. \A t \in told' : Kept(t)'
  <2>1. \A t \in told' \ told : t \in Held(ws.items)
    BY DEF Settle, Tell
  <2>2. \A t \in told' \ told : Kept(t)'
    BY <1>1, <2>1 DEF Kept
  <2> QED
    BY <1>2, <2>2, ToldAdvances
<1>4. \A q \in late' : Sent(q)
  BY <1>1 DEF Sent
<1> QED
  BY <1>1, <1>2, <1>3, <1>4, QuietMove

LEMMA WTimedOutMove ==
  ASSUME IInv, NEW c \in Writers, WTimedOut(c)
  PROVE  IInv'
<1>1. /\ ws' = ws /\ UNCHANGED adminVars /\ UNCHANGED <<wkey, puts>> /\ told' = told
  BY DEF WTimedOut
<1>2. Advance /\ \A t \in told' : Kept(t)'
  BY <1>1, SameAdvances, ToldAdvances
<1>3. \A q \in late' : Sent(q)
  BY DEF WTimedOut, Sent
<1>4. CASE WRetry
  BY <1>1, <1>2, <1>3, <1>4, ServerMove DEF WRetry, writerVars
<1>5. CASE WDone(c)
  BY <1>1, <1>2, <1>3, <1>5, QuietMove DEF WDone
<1> QED
  BY <1>4, <1>5 DEF WTimedOut

(***************************************************************************)
(* The invariant, and what follows from it.                                *)
(***************************************************************************)
LEMMA InvInit == Init => IInv
<1> SUFFICES ASSUME Init PROVE IInv
  OBVIOUS
<1> USE DEF Init, WorkspaceInit
<1>1. WorkspaceTypeOK /\ ~Rewriting
  BY WorkspaceAssumption DEF WorkspaceTypeOK, KeyIds, Rewriting
<1>2. WsGood
  BY <1>1 DEF WsGood, OneKey, HeaderOpens, CopiesWhole
<1>3. Typed
  BY NoJobTyped, WorkspaceAssumption DEF Typed, Steps, KeyIds
<1>4. KeysMade
  BY <1>1 DEF KeysMade, NoJob
<1>5. \A r : ~Sent(r)
  BY DEF Sent
<1>6. \A d \in Admins : JobSound(d)
  BY DEF JobSound, Works, Knows
<1> QED
  BY <1>2, <1>3, <1>4, <1>5, <1>6 DEF IInv

LEMMA InvNext == IInv /\ [Next]_vars => IInv'
<1> SUFFICES ASSUME IInv, [Next]_vars PROVE IInv'
  OBVIOUS
<1>1. CASE UNCHANGED vars
  <2>1. ws' = ws /\ late' = late /\ UNCHANGED adminVars /\ UNCHANGED writerVars
    BY <1>1 DEF vars, adminVars, writerVars
  <2> QED
    BY <2>1, SameAdvances, ServerMove DEF Sent
<1>2. ASSUME NEW d \in Admins,
             \/ SetUp(d) \/ FreshStart(d) \/ ChangeWords(d) \/ Rewrite(d) \/ Resume(d)
             \/ AbortRewrite(d) \/ AdminStep(d) \/ TimedOut(d) \/ KeepLease(d) \/ Crash(d)
      PROVE  IInv'
  BY <1>2, ChangeMove, RewriteMove, JoinMove, AnsweredMove, ListMove, CopyMove, VerifyMove,
     FaultMove, LeaseMove DEF AdminStep
<1>3. ASSUME NEW c \in Writers,
             \/ OpenWorkspace(c) \/ \E k \in Contents : Put(c, k) \/ Delete(c, k)
             \/ WAnswered(c) \/ Settle(c) \/ WTimedOut(c)
      PROVE  IInv'
  <2>1. ASSUME NEW k \in Contents, Delete(c, k) PROVE IInv'
    BY <2>1, DeleteMove
  <2> QED
    BY <1>3, <2>1, OpenMove, PutMove, WAnsweredMove, SettleMove, WTimedOutMove
<1>4. CASE Lapse \/ Deliver
  BY <1>4, LeaseMove, DeliverMove
<1> QED
  BY <1>1, <1>2, <1>3, <1>4 DEF Next

LEMMA InvAlways == Spec => []IInv
  BY InvInit, InvNext, PTL DEF Spec

\* What a writer was told is stored stays stored until somebody deletes it,
\* whichever answers are lost, late or doubled and whichever re-encryptions are
\* cut short or taken over (store.rs `send_and_commit`, `settle`; admin.rs
\* `drive`).
THEOREM DevicesLoseNothing == Spec => []NothingLost
<1>1. IInv => NothingLost
  BY DEF IInv, NothingLost, Kept
<1> QED
  BY <1>1, InvAlways, PTL

\* Every item is under the key the workspace names, and its header opens to
\* that key, whichever changes raced (store.rs `expected`; admin.rs `rewrite`,
\* `change_words`).
THEOREM DevicesShareOneKey == Spec => [](OneKey /\ HeaderOpens)
<1>1. IInv => OneKey /\ HeaderOpens
  BY DEF IInv, WsGood
<1> QED
  BY <1>1, InvAlways, PTL

\* Only copies that were read back take the items' place (admin_trait.rs
\* `run_rewrite`).
THEOREM DevicesCommitWholeCopies == Spec => []CopiesWhole
<1>1. IInv => CopiesWhole
  BY DEF IInv, WsGood
<1> QED
  BY <1>1, InvAlways, PTL
================================================================================
