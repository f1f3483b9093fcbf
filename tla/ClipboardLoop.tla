----------------------------- MODULE ClipboardLoop -----------------------------
(***************************************************************************)
(* The clipboard task of `serve`: one loop that reads the clipboard at     *)
(* every tick and queues what is new, and that puts on the clipboard what  *)
(* pull mode hands it.  It remembers the last text and the last image it   *)
(* saw or wrote, so that a pulled item is not sent back.                   *)
(***************************************************************************)
EXTENDS Naturals, Sequences

CONSTANTS Texts, Images,
          Links,       \* the texts that only refer to an image beside them
          Blank,       \* the texts of white space alone
          Nothing,
          SendImages,  \* serve.clipboard_images
          WriteDepth,  \* room between pull mode and this loop
          QueueDepth   \* room between this loop and the uploader

ASSUME ClipboardAssumption ==
  /\ Links \in SUBSET Texts /\ Blank \in SUBSET (Texts \ Links)
  /\ Nothing \notin Texts \cup Images
  /\ SendImages \in BOOLEAN
  /\ WriteDepth \in Nat \ {0} /\ QueueDepth \in Nat \ {0}

VARIABLES
  clip,       \* what the clipboard holds, and who put it there
  lastText,   \* the watcher's last text
  lastImage,  \* the watcher's last image
  writes,     \* content pull mode wants on the clipboard
  waiting,    \* the job the loop is about to queue; it does nothing else meanwhile
  jobs        \* the uploader's queue

clipboardVars == <<clip, lastText, lastImage, writes, waiting, jobs>>

Contents == Texts \cup Images
\* "user": the user copied it; "pull": this loop wrote it; "before": it was
\* there when serve started.
Origins == {"user", "pull", "before"}
Jobs == [what : Contents, by : Origins]
Clip(text, image, by) == [text |-> text, image |-> image, by |-> by]
\* What a write of one content leaves on the clipboard.
Holding(c, by) == IF c \in Texts THEN Clip(c, Nothing, by) ELSE Clip(Nothing, c, by)
NoJob == [what |-> Nothing, by |-> "before"]

ClipboardTypeOK ==
  /\ clip \in [text : Texts \cup {Nothing}, image : Images \cup {Nothing}, by : Origins]
  /\ lastText \in Texts \cup {Nothing}
  /\ lastImage \in Images \cup {Nothing}
  /\ writes \in Seq(Contents) /\ Len(writes) <= WriteDepth
  /\ waiting \in Jobs \cup {NoJob}
  /\ jobs \in Seq(Jobs) /\ Len(jobs) <= QueueDepth

ClipboardInit ==
  /\ clip = Clip(Nothing, Nothing, "before")
  /\ lastText = Nothing /\ lastImage = Nothing
  /\ writes = <<>> /\ waiting = NoJob /\ jobs = <<>>

\* The user copies text, an image, or an image with a link beside it.
Copy(text, image) ==
  /\ <<text, image>> # <<Nothing, Nothing>>
  /\ text # Nothing /\ image # Nothing => text \in Links
  /\ clip' = Clip(text, image, "user")
  /\ UNCHANGED <<lastText, lastImage, writes, waiting, jobs>>

\* What counts as the clipboard's content: its text, or its image when the
\* text is missing, blank or only refers to it.
Payload ==
  IF SendImages /\ clip.image # Nothing /\ (clip.text \in Links \cup Blank \cup {Nothing})
  THEN [text |-> Nothing, image |-> clip.image]
  ELSE [text |-> clip.text, image |-> Nothing]

NewText == Payload.text # Nothing /\ Payload.text # lastText
NewImage == Payload.image # Nothing /\ Payload.image # lastImage

\* A tick: blank text is remembered, but not sent.
Read ==
  /\ waiting = NoJob
  /\ \/ /\ NewText
        /\ lastText' = Payload.text
        /\ waiting' = IF Payload.text \in Blank THEN NoJob ELSE [what |-> Payload.text, by |-> clip.by]
        /\ UNCHANGED lastImage
     \/ /\ ~NewText /\ NewImage
        /\ lastImage' = Payload.image
        /\ waiting' = [what |-> Payload.image, by |-> clip.by]
        /\ UNCHANGED lastText
  /\ UNCHANGED <<clip, writes, jobs>>

\* The queue has room for the job the loop waits with.
Queue ==
  /\ waiting # NoJob /\ Len(jobs) < QueueDepth
  /\ jobs' = Append(jobs, waiting)
  /\ waiting' = NoJob
  /\ UNCHANGED <<clip, lastText, lastImage, writes>>

\* Mutant: only text is remembered.
WriteForgetful ==
  /\ waiting = NoJob /\ writes # <<>>
  /\ writes' = Tail(writes)
  /\ clip' = Holding(Head(writes), "pull")
  /\ lastText' = IF Head(writes) \in Texts THEN Head(writes) ELSE lastText
  /\ UNCHANGED <<lastImage, waiting, jobs>>

\* What pull mode found goes onto the clipboard and counts as seen; the write
\* may fail, and then nothing is remembered.
Write ==
  /\ waiting = NoJob /\ writes # <<>>
  /\ writes' = Tail(writes)
  /\ \/ /\ clip' = Holding(Head(writes), "pull")
        /\ lastText' = IF Head(writes) \in Texts THEN Head(writes) ELSE lastText
        /\ lastImage' = IF Head(writes) \in Images THEN Head(writes) ELSE lastImage
     \/ UNCHANGED <<clip, lastText, lastImage>>
  /\ UNCHANGED <<waiting, jobs>>

\* The uploader takes its next job.
TakeJob ==
  /\ jobs # <<>>
  /\ jobs' = Tail(jobs)
  /\ UNCHANGED <<clip, lastText, lastImage, writes, waiting>>

\* A new watcher has seen nothing, and its queues are new.
ClipboardRestart ==
  /\ clip' = [clip EXCEPT !.by = "before"]
  /\ lastText' = Nothing /\ lastImage' = Nothing
  /\ writes' = <<>> /\ waiting' = NoJob /\ jobs' = <<>>

--------------------------------------------------------------------------------
\* What pull mode put on the clipboard is never queued to be sent back,
\* whatever the user copies in between and however long the loop waits for
\* room (clipboard_watcher.rs `mark_text`, `mark_image`, serve/mod.rs
\* `clipboard_loop`).
NoEcho == waiting.by # "pull" /\ \A n \in DOMAIN jobs : jobs[n].by # "pull"
================================================================================
