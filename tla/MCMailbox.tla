----------------------------- MODULE MCMailbox -----------------------------
(* Four parts of the mailbox for TLC, each by itself: the behaviours of the *)
(* specification are those of Folders, of SentCopy, of Threads and of       *)
(* Repair, on small accounts.  What a part does not have is off; Folders is *)
(* the module this one extends, and where it is off its tree is empty.      *)
EXTENDS Folders

CONSTANTS
    Letters, MaxFail, MaxConfig, MaxTool,                                    \* SentCopy's
    N, Id(_), Refs(_), Subject(_), IsReply(_), Window, AnchorsToo, ThreadBudgets,
    RepairFolder, All, Letter(_), Starts, RepairMaxUid, MaxRow, RepairBudgets

VARIABLES
    part,
    files, folder, owed, sentCopies, save_sent, outbound, mime, sentRows, synced, agent, tool,
    passed, fails, configs, tools,
    thread, shared, box, archive, reminders, tick, clear, taken, reordered, put,
    rows, loc, young, queue, ended, reminder, copies, uidnext, pc, groups, skip, besides,
    nowhere, asking, backup, chance

----------------------------------------------------------------------------
FolderParent(f) == IF f = "sub" THEN "arch" ELSE f
FolderRole(f)   == CASE f = "arch" -> "archive" [] f = "sub" -> "custom" [] OTHER -> f
FolderBudget(press, world, load, fail) ==
    [press |-> press, world |-> world, load |-> load, fail |-> fail]

FolderBudgets ==
    {FolderBudget(1,2,0,0), FolderBudget(2,0,0,0), FolderBudget(1,0,0,1), FolderBudget(0,0,1,0)}

S == INSTANCE SentCopy WITH
        Mail <- Letters, copies <- sentCopies, rows <- sentRows

\* Two mails wear one Message-ID, and a reply to the second names both of its kind.
MailId(m)      == <<10, 20, 30, 10>>[m]
MailRefs(m)    == IF m = 3 THEN {10, 20} ELSE {}
MailSubject(m) == IF m \in {2, 3} THEN "s" ELSE ""
MailReplies(m) == m = 3
ThreadBudget(f) ==
    [k \in {"remind", "touch", "clear", "fail", "relist", "rethread", "delete"} |->
        IF k \in DOMAIN f THEN f[k] ELSE 0]

ThreadTrouble ==
    {ThreadBudget([rethread |-> 1, remind |-> 1]), ThreadBudget([remind |-> 2, clear |-> 1]),
     ThreadBudget([remind |-> 1, clear |-> 1, fail |-> 1]),
     ThreadBudget([remind |-> 1, delete |-> 1, clear |-> 1]),
     ThreadBudget([remind |-> 1, touch |-> 1, clear |-> 1]),
     ThreadBudget([remind |-> 1, relist |-> 1])}

T == INSTANCE Threads WITH Budgets <- ThreadBudgets, left <- put

\* x2 is x as Bridge writes it another time; z is another mail with their Message-ID.
LetterOf(b)     == IF b \in {"x", "x2"} THEN "letter" ELSE "other"
Stored(b, s, o) == [bytes |-> b, status |-> s, own |-> o]
Placed(r, f, u) == [row |-> r, folder |-> f, uid |-> u]
Start(rs, real, more, ahead) ==
    [rows |-> rs, real |-> real, more |-> more, ahead |-> ahead, from |-> "inbox"]
RepairStarts ==
    {Start(<<Stored("x", "full", TRUE), Stored(b, "full", FALSE)>>,
           {Placed(1, "inbox", 1)}, {}, {<<2, "arch">>}) : b \in {"x", "x2", "z"}} \cup
    {Start(<<Stored("x", "pruned", TRUE), Stored("x", "full", FALSE)>>,
           {Placed(1, "inbox", 1), Placed(2, "arch", 2)}, {}, {}),
     Start(<<Stored("x", "full", TRUE)>>, {}, {}, {<<1, "arch">>}),
     Start(<<Stored("x", "full", TRUE)>>, {}, {[bytes |-> "x2", folder |-> "all", uid |-> 1]},
           {<<1, "arch">>}),
     Start(<<Stored("x", "full", TRUE)>>, {Placed(1, "inbox", 1)}, {},
           {<<1, "arch">>, <<1, "inbox">>})}
RepairBudget(press, remind, world, fail) ==
    [press |-> press, remind |-> remind, world |-> world, fail |-> fail]

RepairTrouble ==
    {RepairBudget(1,0,0,0), RepairBudget(0,1,0,1), RepairBudget(0,0,1,0), RepairBudget(1,0,1,0),
     RepairBudget(1,1,0,0)}

R == INSTANCE Repair WITH
        Folder <- RepairFolder, MaxUid <- RepairMaxUid, Budgets <- RepairBudgets, left <- chance

----------------------------------------------------------------------------
NoFolders ==
    /\ exists = {} /\ held = [f \in Folder |-> <<>>] /\ takesAll = FALSE /\ loading = FALSE
    /\ imported = FALSE /\ row = [f \in Folder |-> NoRow] /\ place = {} /\ stored = {}
    /\ idle = [m \in Mail |-> 0] /\ asks = {} /\ moves = {} /\ pass = NoPass
    /\ unlisted = [f \in Folder |-> 0] /\ mixed = {} /\ strayed = FALSE
    /\ left = FolderBudget(0,0,0,0)
NoSent ==
    /\ files = 0 /\ folder = 0 /\ owed = 0 /\ sentCopies = 0 /\ save_sent = 0 /\ outbound = 0
    /\ mime = 0 /\ sentRows = 0 /\ synced = 0 /\ agent = 0 /\ tool = 0 /\ passed = 0
    /\ fails = 0 /\ configs = 0 /\ tools = 0
NoThreads ==
    /\ thread = 0 /\ shared = 0 /\ box = 0 /\ archive = 0 /\ reminders = 0 /\ tick = 0
    /\ clear = 0 /\ taken = 0 /\ reordered = 0 /\ put = 0
NoRepair ==
    /\ rows = 0 /\ loc = 0 /\ young = 0 /\ queue = 0 /\ ended = 0 /\ reminder = 0 /\ copies = 0
    /\ uidnext = 0 /\ pc = 0 /\ groups = 0 /\ skip = 0 /\ besides = 0 /\ nowhere = 0
    /\ asking = 0 /\ backup = 0 /\ chance = 0

sentVars   == <<files, folder, owed, sentCopies, save_sent, outbound, mime, sentRows, synced,
                agent, tool, passed, fails, configs, tools>>
threadVars == <<thread, shared, box, archive, reminders, tick, clear, taken, reordered, put>>
repairVars == <<rows, loc, young, queue, ended, reminder, copies, uidnext, pc, groups, skip,
                besides, nowhere, asking, backup, chance>>
mailboxVars == <<part, vars, sentVars, threadVars, repairVars>>

MailboxInit ==
    \/ part = "folders" /\ Init      /\ NoSent /\ NoThreads /\ NoRepair
    \/ part = "sent"    /\ NoFolders /\ S!Init /\ NoThreads /\ NoRepair
    \/ part = "threads" /\ NoFolders /\ NoSent /\ T!Init    /\ NoRepair
    \/ part = "repair"  /\ NoFolders /\ NoSent /\ NoThreads /\ R!Init

MailboxNext ==
    \/ part = "folders" /\ Next   /\ UNCHANGED <<part, sentVars, threadVars, repairVars>>
    \/ part = "sent"    /\ S!Next /\ UNCHANGED <<part, vars, threadVars, repairVars>>
    \/ part = "threads" /\ T!Next /\ UNCHANGED <<part, vars, sentVars, repairVars>>
    \/ part = "repair"  /\ R!Next /\ UNCHANGED <<part, vars, sentVars, threadVars>>

\* The Fairness of Folders, of SentCopy and of Threads, each where it runs.
FoldersFair ==
    /\ WF_vars(part = "folders" /\ StartPass) /\ WF_vars(part = "folders" /\ prune)
    /\ WF_vars(part = "folders" /\ Tick) /\ WF_vars(part = "folders" /\ Loaded)
    /\ WF_vars(part = "folders" /\ dies /\ left' = left)
    /\ WF_vars(part = "folders" /\ list_folders)
    /\ SF_vars(part = "folders" /\ \E a \in moves : apply_move(a))
    /\ SF_vars(part = "folders" /\ list_folders /\ pass'.sweep /\ pass'.listed = exists)
    /\ SF_vars(part = "folders" /\ \E f \in asks : create_folder(f) /\ f \notin asks')
    /\ \A f \in Folder : WF_vars(part = "folders" /\ walk(f))
SentFair ==
    /\ WF_sentVars(part = "sent" /\ S!AgentStep) /\ WF_sentVars(part = "sent" /\ S!MakeFolder)
    /\ \A m \in Letters : WF_sentVars(part = "sent" /\ S!ServerFiles(m))
    /\ SF_sentVars(part = "sent" /\ \E i \in DOMAIN sentRows : S!Take(i))
ThreadsFair ==
    /\ WF_threadVars(part = "threads" /\ T!ReadDue)
    /\ WF_threadVars(part = "threads" /\ \E i \in T!Ids : T!FireDue(i))
    /\ WF_threadVars(part = "threads" /\ \E i \in T!Ids : T!ComesDue(i))

MailboxSpec == MailboxInit /\ [][MailboxNext]_mailboxVars

----------------------------------------------------------------------------
\* Left alone, the tree comes to show the server's folders and those made here, and
\* every mail is filed where the server holds it (list_folders, walk, create_folder).
TreeSettles == FoldersFair => <>[](part = "folders" => TreeIsSettled)

\* A message is in Sent once, whoever files it there and however often (apply_save_sent).
OneCopy == part = "sent" => S!OneCopy

\* Every sent message whose copy was asked for is, in the end, in Sent.
Filed == SentFair => []<>(part = "sent" => S!AllFiled)

\* In whatever order mail arrives, what belongs together is one conversation, and mail
\* that shares nothing but a Message-ID is not (assign_thread, _merge_threads).
Grouped == part = "threads" => T!Grouped

\* A reminder that is over has brought back all of what it parked (fire).
Promise == [][part = "threads" => T!BroughtBack]_mailboxVars

\* What is put off comes back, whatever fails and whoever else takes it back (run_due).
ComesBack == ThreadsFair => []<>(part = "threads" => T!NoneWaits)

\* A row the tool takes out is nothing's to wait on, and its mail stays (merge, forget).
Accounted == [][part = "repair" => R!Replaces]_mailboxVars
=============================================================================
