------------------------------ MODULE EmailIngest ------------------------------
(***************************************************************************)
(* The ingest of subscription e-mail: unread messages are downloaded from  *)
(* the mailbox into a folder, read into rows, the rows merged into the     *)
(* parquet frames the agency reads, and the messages flagged as seen.      *)
(*                                                                         *)
(* Two programs do so.  The watcher polls: it ingests the files its state  *)
(* file does not list, flags the messages it downloaded and saves the      *)
(* list.  The import, a job of the refresh batch, ingests and flags the    *)
(* messages it downloaded.  The watcher holds a lock against a second      *)
(* watcher; the import does not take it, so the two overlap, and the news  *)
(* feed's job rewrites one of the frames too.                              *)
(*                                                                         *)
(* A frame is the set of messages with a row in it; a row that a later one *)
(* of the same ticker and address replaces counts as kept.                 *)
(***************************************************************************)
EXTENDS Integers, FiniteSets

CONSTANTS
    Mails,          \* the messages, by UID
    Allowed,        \* those of an allowlisted sender
    Telling,        \* those of an enabled service that name a ticker
    Unsteady,       \* those a run may set aside: dated outside the window of
                    \* its clock, or with an article it could not open
    Gated,          \* those whose article asks for a login: an event row only
    MaxMessages,    \* mailbox_max_messages
    UnseenOnly,     \* mailbox_unseen_only
    MarkSeen,       \* mailbox_mark_seen
    Crews,          \* the sets of programs that may run side by side
    MaxFaults       \* bound: failures and kills in a behaviour

ASSUME MailsAssumption ==
    /\ Mails \subseteq Nat /\ IsFiniteSet(Mails)
    /\ Gated \subseteq Telling /\ Telling \subseteq Allowed /\ Allowed \subseteq Mails
ASSUME SettingsAssumption ==
    MaxMessages \in Nat \ {0} /\ UnseenOnly \in BOOLEAN /\ MarkSeen \in BOOLEAN
ASSUME BoundsAssumption == MaxFaults \in Nat

Readers == {"watch", "import"}
Programs == Readers \cup {"feed"}

ASSUME CrewsAssumption == Crews \subseteq SUBSET Programs

\* The rows of a message go to the news frame, or for an alert to the activity
\* frame in the same manner, then to the event frame.
Frames == {"news", "events"}

VARIABLES
    crew,           \* the programs that are run
    arrived, seen,  \* the mailbox: messages delivered, flagged as seen
    file,           \* the folder: each message's .eml file
    recorded,       \* the files the watcher's state file lists
    frame, torn,    \* the frames, and those cut short: read_parquet raises
    pc,             \* each program's next step
    todo,           \* messages it has still to download, or to flag
    picked,         \* selected_uids and selected_paths
    listed,         \* the watcher's snapshot of the folder
    rows,           \* messages it has rows for
    at, base,       \* the frame it is writing, and the content it read there
    faults,
    stored,         \* history: messages whose rows each frame has held
    unsaved,        \* history: messages whose file a write left out or cut short
    aside,          \* history: messages a run has set aside
    crossed         \* history: two programs rewrote a frame at once

mailbox == <<arrived, seen>>
folder == <<file, unsaved>>
data == <<frame, torn, stored, crossed>>
local == <<todo, picked, listed, rows, at, base>>
vars == <<crew, mailbox, folder, recorded, data, pc, local, faults, aside>>

TypeOK ==
    /\ crew \in Crews
    /\ arrived \subseteq Mails
    /\ seen \subseteq Mails
    /\ file \in [Mails -> {"none", "torn", "whole"}]
    /\ recorded \subseteq Mails
    /\ frame \in [Frames -> SUBSET Mails] /\ torn \subseteq Frames
    /\ pc \in [Programs -> {"idle", "fetch", "scan", "read", "open", "close", "mark", "save"}]
    /\ todo \in [Readers -> SUBSET Mails]
    /\ picked \in [Readers -> SUBSET Mails]
    /\ listed \subseteq Mails
    /\ rows \in [Programs -> SUBSET Mails]
    /\ at \in [Programs -> Frames]
    /\ base \in [Programs -> SUBSET Mails]
    /\ faults \in 0 .. MaxFaults
    /\ stored \in [Frames -> SUBSET Mails]
    /\ unsaved \subseteq Mails /\ aside \subseteq Mails
    /\ crossed \in BOOLEAN
    /\ pc["feed"] \in {"idle", "read", "open", "close"} /\ at["feed"] = "news"

Init ==
    /\ crew \in Crews
    /\ arrived = {} /\ seen = {}
    /\ file = [m \in Mails |-> "none"] /\ recorded = {}
    /\ frame = [f \in Frames |-> {}] /\ torn = {}
    /\ pc = [p \in Programs |-> "idle"]
    /\ todo = [p \in Readers |-> {}] /\ picked = [p \in Readers |-> {}]
    /\ listed = {}
    /\ rows = [p \in Programs |-> {}]
    /\ at = [p \in Programs |-> "news"] /\ base = [p \in Programs |-> {}]
    /\ faults = 0
    /\ stored = [f \in Frames |-> {}]
    /\ unsaved = {} /\ aside = {} /\ crossed = FALSE

Fault == faults < MaxFaults /\ faults' = faults + 1

Goto(p, step) == pc' = [pc EXCEPT ![p] = step]

\* A run ends and its locals with it.
Stop(p) ==
    /\ Goto(p, "idle")
    /\ rows' = [rows EXCEPT ![p] = {}]
    /\ at' = [at EXCEPT ![p] = "news"]
    /\ base' = [base EXCEPT ![p] = {}]
    /\ IF p \in Readers
       THEN todo' = [todo EXCEPT ![p] = {}] /\ picked' = [picked EXCEPT ![p] = {}]
       ELSE UNCHANGED <<todo, picked>>
    /\ listed' = IF p = "watch" THEN {} ELSE listed

\* A message is delivered; UIDs ascend.
Arrive ==
    /\ \E m \in Mails \ arrived :
        /\ \A n \in Mails : n < m => n \in arrived
        /\ arrived' = arrived \cup {m}
    /\ UNCHANGED <<crew, seen, folder, recorded, data, pc, local, faults, aside>>


Matched == IF UnseenOnly THEN arrived \ seen ELSE arrived

\* _limited_uids: the newest of the matched messages.
Newest(S) == {m \in S : Cardinality({n \in S : n > m}) < MaxMessages}

Search(p) ==
    /\ pc[p] = "idle" /\ p \in crew
    /\ Goto(p, "fetch")
    /\ todo' = [todo EXCEPT ![p] = Newest(Matched)]
    /\ UNCHANGED <<crew, mailbox, folder, recorded, data, picked, listed, rows, at, base, faults, aside>>

\* The next message of the loop, oldest first.
Turn(p, m) == m \in todo[p] /\ \A n \in todo[p] : m <= n

\* A sender that is not allowed is skipped, and so is a message that cannot be
\* fetched.
SkipMail(p) ==
    /\ pc[p] = "fetch"
    /\ \E m \in Mails :
        /\ Turn(p, m)
        /\ \/ m \notin Allowed /\ UNCHANGED faults
           \/ Fault
        /\ todo' = [todo EXCEPT ![p] = @ \ {m}]
    /\ UNCHANGED <<crew, mailbox, folder, recorded, data, pc, picked, listed, rows, at, base, aside>>

\* _write_message: a file that is there is left as it is.
SaveMail(p) ==
    /\ pc[p] = "fetch"
    /\ \E m \in Allowed :
        /\ Turn(p, m)
        /\ file' = [file EXCEPT ![m] = IF @ = "none" THEN "whole" ELSE @]
        /\ picked' = [picked EXCEPT ![p] = @ \cup {m}]
        /\ todo' = [todo EXCEPT ![p] = @ \ {m}]
    /\ UNCHANGED <<crew, mailbox, unsaved, recorded, data, pc, listed, rows, at, base, faults, aside>>

\* The write fails after the message was selected; what it wrote stays.
SaveFails(p) ==
    /\ pc[p] = "fetch"
    /\ Fault
    /\ \E m \in Allowed :
        /\ Turn(p, m) /\ file[m] = "none"
        /\ \E left \in {"none", "torn"} : file' = [file EXCEPT ![m] = left]
        /\ picked' = [picked EXCEPT ![p] = @ \cup {m}]
        /\ todo' = [todo EXCEPT ![p] = @ \ {m}]
        /\ unsaved' = unsaved \cup {m}
    /\ UNCHANGED <<crew, mailbox, recorded, data, pc, listed, rows, at, base, aside>>

EndSync(p) ==
    /\ pc[p] = "fetch" /\ todo[p] = {}
    /\ Goto(p, "scan")
    /\ UNCHANGED <<crew, mailbox, folder, recorded, data, local, faults, aside>>

(***************************************************************************)
(* Reading the files                                                       *)
(***************************************************************************)
Files == {m \in Mails : file[m] # "none"}

\* The watcher ingests what its state file does not list, the import what it
\* selected.
Batch(p) == IF p = "watch" THEN Files \ recorded ELSE picked[p]

\* parse_email_file raises on a file that is not there.
ScanFails(p) ==
    /\ pc[p] = "scan"
    /\ ~(Batch(p) \subseteq Files)
    /\ Stop(p)
    /\ UNCHANGED <<crew, mailbox, folder, recorded, data, faults, aside>>

\* Nothing new: the watcher saves its list at once, and flags nothing.
NothingNew ==
    /\ pc["watch"] = "scan" /\ Batch("watch") = {}
    /\ listed' = Files
    /\ picked' = [picked EXCEPT !["watch"] = {}]
    /\ Goto("watch", "save")
    /\ UNCHANGED <<crew, mailbox, folder, recorded, data, todo, rows, at, base, faults, aside>>

\* The snapshot, the eligible messages and their rows.  A file cut short reads
\* as a message with or without rows.
Scan(p) ==
    /\ pc[p] = "scan"
    /\ Batch(p) \subseteq Files
    /\ p = "watch" => Batch(p) # {}
    /\ listed' = IF p = "watch" THEN Files ELSE listed
    /\ \E out \in SUBSET (Batch(p) \cap Unsteady),
          cut \in SUBSET {m \in Batch(p) : file[m] = "torn"} :
        /\ rows' = [rows EXCEPT ![p] = (Batch(p) \cap Telling) \ (out \cup cut)]
        /\ aside' = aside \cup out
    /\ todo' = [todo EXCEPT ![p] = IF MarkSeen THEN picked[p] ELSE {}]
    /\ picked' = [picked EXCEPT ![p] = {}]
    /\ at' = [at EXCEPT ![p] = IF rows'[p] \subseteq Gated THEN "events" ELSE "news"]
    /\ Goto(p, IF rows'[p] = {} THEN "mark" ELSE "read")
    /\ UNCHANGED <<crew, mailbox, folder, recorded, data, base, faults>>

(***************************************************************************)
(* Writing the frames                                                      *)
(***************************************************************************)
\* The rows p has for the frame it is at.
RowsHere(p) == IF at[p] = "news" THEN rows[p] \ Gated ELSE rows[p]

\* pull_news_rss, or a job of the activity alerts: rows of its own.
FeedBegins ==
    /\ pc["feed"] = "idle" /\ "feed" \in crew
    /\ Goto("feed", "read")
    /\ UNCHANGED <<crew, mailbox, folder, recorded, data, local, faults, aside>>

\* q has read the frame p is at and has not written it yet.
Rewrites(q, p) == q # p /\ at[q] = at[p] /\ pc[q] \in {"open", "close"}

ReadFrame(p) ==
    /\ pc[p] = "read" /\ at[p] \notin torn
    /\ base' = [base EXCEPT ![p] = frame[at[p]]]
    /\ crossed' = (crossed \/ \E q \in Programs : Rewrites(q, p))
    /\ Goto(p, "open")
    /\ UNCHANGED <<crew, mailbox, folder, recorded, frame, torn, stored, todo, picked, listed, rows, at, faults, aside>>

\* Mutant: the exception is swallowed and the messages are flagged.
Mut_ReadFails(p) ==
    /\ pc[p] = "read" /\ at[p] \in torn
    /\ Goto(p, "mark")
    /\ UNCHANGED <<crew, mailbox, folder, recorded, data, local, faults, aside>>

\* The exception ends the cycle, and the program.
ReadFails(p) ==
    /\ pc[p] = "read" /\ at[p] \in torn
    /\ Stop(p)
    /\ UNCHANGED <<crew, mailbox, folder, recorded, data, faults, aside>>

\* to_parquet truncates the file it rewrites.
OpenFrame(p) ==
    /\ pc[p] = "open"
    /\ torn' = torn \cup {at[p]}
    /\ Goto(p, "close")
    /\ UNCHANGED <<crew, mailbox, folder, recorded, frame, stored, crossed, local, faults, aside>>

\* Mutant: the rows of the run replace those there.
Mut_Merged(p) == RowsHere(p)

\* write_news_frame, write_event_frame: the rows there and those of the run.
Merged(p) == base[p] \cup RowsHere(p)

\* Mutant: every writer goes on to the event frame.
Mut_GoesOn(p) == at[p] = "news"

\* _write_outputs: the event frame comes after the other.
GoesOn(p) == p \in Readers /\ at[p] = "news"

\* The file is whole, unless another program is writing it too.
CloseFrame(p) ==
    /\ pc[p] = "close"
    /\ frame' = [frame EXCEPT ![at[p]] = Merged(p)]
    /\ \/ torn' = torn \ {at[p]}
       \/ /\ \E q \in Programs : Rewrites(q, p) /\ pc[q] = "close"
          /\ UNCHANGED torn
    /\ stored' = [stored EXCEPT ![at[p]] = @ \cup RowsHere(p)]
    /\ base' = [base EXCEPT ![p] = {}]
    /\ IF GoesOn(p)
       THEN Goto(p, "read") /\ at' = [at EXCEPT ![p] = "events"]
       ELSE Goto(p, IF p = "feed" THEN "idle" ELSE "mark") /\ at' = [at EXCEPT ![p] = "news"]
    /\ rows' = IF at[p] = "news" THEN rows ELSE [rows EXCEPT ![p] = {}]
    /\ UNCHANGED <<crew, mailbox, folder, recorded, crossed, todo, picked, listed, faults, aside>>

(***************************************************************************)
(* mark_mailbox_emails_seen and the watcher's state file                   *)
(***************************************************************************)
Mark(p) ==
    /\ pc[p] = "mark"
    /\ \E m \in Mails :
        /\ Turn(p, m)
        /\ seen' = seen \cup {m}
        /\ todo' = [todo EXCEPT ![p] = @ \ {m}]
    /\ UNCHANGED <<crew, arrived, folder, recorded, data, pc, picked, listed, rows, at, base, faults, aside>>

EndMark(p) ==
    /\ pc[p] = "mark" /\ todo[p] = {}
    /\ IF p = "watch" THEN Goto(p, "save") /\ UNCHANGED local ELSE Stop(p)
    /\ UNCHANGED <<crew, mailbox, folder, recorded, data, faults, aside>>

\* Mutant: the folder is listed when the run ends.
Mut_SaveState ==
    /\ pc["watch"] = "save"
    /\ recorded' = Files
    /\ Stop("watch")
    /\ UNCHANGED <<crew, mailbox, folder, data, faults, aside>>

SaveState ==
    /\ pc["watch"] = "save"
    /\ recorded' = listed
    /\ Stop("watch")
    /\ UNCHANGED <<crew, mailbox, folder, data, faults, aside>>

(***************************************************************************)
(* A kill, or an exception: of the mailbox, of a login nobody confirms, of *)
(* a manifest or the summary.  A file being written is cut short; a state  *)
(* file cut short reads as an empty one.                                   *)
(***************************************************************************)
Dies(p) ==
    /\ pc[p] # "idle"
    /\ Fault
    /\ Stop(p)
    /\ \/ UNCHANGED <<folder, recorded>>
       \/ /\ pc[p] = "fetch"
          /\ \E m \in Allowed :
              /\ Turn(p, m) /\ file[m] = "none"
              /\ file' = [file EXCEPT ![m] = "torn"]
              /\ unsaved' = unsaved \cup {m}
          /\ UNCHANGED recorded
       \/ /\ pc[p] = "save" /\ recorded' = {}
          /\ UNCHANGED folder
    /\ UNCHANGED <<crew, mailbox, data, aside>>

-------------------------------------------------------------------------------
Writes(p) == ReadFrame(p) \/ ReadFails(p) \/ OpenFrame(p) \/ CloseFrame(p)

Reads(p) ==
    \/ Search(p) \/ SkipMail(p) \/ SaveMail(p) \/ SaveFails(p) \/ EndSync(p)
    \/ ScanFails(p) \/ Scan(p) \/ Mark(p) \/ EndMark(p)
    \/ p = "watch" /\ (NothingNew \/ SaveState)

Next ==
    \/ Arrive \/ FeedBegins
    \/ \E p \in Readers : Reads(p)
    \/ \E p \in Programs : Writes(p) \/ Dies(p)

Spec == Init /\ [][Next]_vars

\* The refresh batch runs the import again and again, the watcher polls in a
\* loop and is started again; none stops halfway but by a fault.
Fairness ==
    /\ \A p \in Readers : WF_vars(Reads(p) \/ Writes(p))
    /\ WF_vars(Writes("feed"))

FairSpec == Spec /\ Fairness

-------------------------------------------------------------------------------
\* A message whose rows were written to every frame they go to.
Stored(m) == m \in stored["events"] /\ (m \in Gated \/ m \in stored["news"])

\* What no ingest makes good: a file left out or cut short, a message set aside.
Lost == unsaved \cup aside

\* A message is flagged as seen only after its rows were written to the
\* frames, however the two programs interleave and wherever one dies: a message
\* flagged before would not be searched again.  What was not saved or was set
\* aside is flagged all the same (mailbox.py:99, monitor.py:76, ingest.py:166).
SeenWasStored == \A m \in (seen \cap Telling) \ Lost : Stored(m)

\* The watcher's state file lists a file only after its rows were written: a
\* file it lists is not read again (monitor.py:52, :105).
RecordedWasStored == \A m \in (recorded \cap Telling) \ Lost : Stored(m)

\* As long as no two programs rewrote a frame at once, a frame that can be read
\* holds every row ever written to it (storage.py:67, news/storage.py:40).
SerialWritersKeepRows == \A f \in Frames : crossed \/ f \in torn \/ stored[f] \subseteq frame[f]

\* What can keep an import from the frames for ever: a frame that a kill cut
\* short, which nothing repairs, or one that another program has open whenever
\* the import comes to read it.
NoFrameStaysTorn == \A f \in Frames : []<>(f \notin torn)

MeetsOpenFrame ==
    \E p, q \in Programs : ReadFails(p) /\ Rewrites(q, p) /\ pc[q] = "close"

MeetingsCease == <>[][~MeetsOpenFrame]_vars


-------------------------------------------------------------------------------
(* What the two invariants above rest on. *)

\* A file cut short was not saved; what is selected is in the folder or was not.
SelectionIsSaved ==
    /\ \A m \in Mails : file[m] = "torn" => m \in unsaved
    /\ \A p \in Readers : picked[p] \subseteq Files \cup unsaved
    /\ \A p \in Readers : pc[p] = "scan" => todo[p] = {}

\* The messages p will flag, and for the watcher list, once its rows are written.
Due(p) == (todo[p] \cup IF p = "watch" THEN listed ELSE {}) \cap (Telling \ Lost)

\* Each of them is stored already or among the rows in hand, which the news
\* frame has by the time p is at the event frame.
InHand(p) ==
    /\ pc[p] \in {"read", "open", "close"} =>
        /\ \A m \in Due(p) : m \in rows[p] \/ Stored(m)
        /\ at[p] = "events" => \A m \in rows[p] : m \in Gated \/ m \in stored["news"]
    /\ pc[p] \in {"mark", "save"} => \A m \in Due(p) : Stored(m)

DueIsInHand == \A p \in Readers : InHand(p)

\* Who rewrites a frame alone has read all of it.
RewriteIsComplete ==
    /\ \A p \in Programs : pc[p] \in {"open", "close"} => crossed \/ stored[at[p]] \subseteq base[p]
    /\ \A p, q \in Programs : pc[p] \in {"open", "close"} /\ Rewrites(q, p) => crossed

\* Inductive: TypeOK gives the counters and sets their range, the rest what each
\* step of a run may rely on of the steps before it.
IndInv ==
    /\ TypeOK /\ SeenWasStored /\ RecordedWasStored /\ SerialWritersKeepRows
    /\ SelectionIsSaved /\ DueIsInHand /\ RewriteIsComplete

-------------------------------------------------------------------------------
(* The length of a run. *)

Own(p) == (p \in Readers /\ Reads(p)) \/ Writes(p) \/ Dies(p)

Ordered ==
    [fetch |-> 10, scan |-> 9, read |-> 5, open |-> 4, close |-> 3, mark |-> 2,
     save |-> 1, idle |-> 0]

\* The steps from where p is to its end, but for the messages it loops over.
\* The news frame comes before the event frame.
Ahead(p) ==
    Ordered[pc[p]] + IF pc[p] \in {"read", "open", "close"} /\ at[p] = "news" THEN 3 ELSE 0

Nearer(p) ==
    \/ pc'[p] = "idle"
    \/ Ahead(p)' < Ahead(p)
    \/ /\ Ahead(p)' = Ahead(p) /\ p \in Readers
       /\ todo'[p] \subseteq todo[p] /\ todo'[p] # todo[p]

\* A run comes nearer its end with every step of its program, and the steps of
\* the others leave it where it is: no message is fetched or flagged twice in a
\* run, and no frame written twice.
RunsRunDown ==
    [][\A p \in Programs : pc[p] # "idle" =>
          IF Own(p) THEN Nearer(p)
          ELSE /\ pc'[p] = pc[p] /\ at'[p] = at[p]
               /\ p \in Readers => todo'[p] = todo[p]]_vars
===============================================================================
