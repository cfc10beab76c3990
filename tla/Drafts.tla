------------------------------- MODULE Drafts -------------------------------
(***************************************************************************)
(* Drafts: a message while it is being written.                            *)
(*                                                                         *)
(* Every browser tab saves the drafts it holds into rows of the outbound   *)
(* table.  A save states the revision it was based on; one that lost the   *)
(* race is refused (409) and becomes a draft of its own, and one whose row *)
(* is gone (404) is saved afresh.  What the server has not taken yet is in *)
(* localStorage.  Sending or throwing a draft away takes its row, in the   *)
(* same commit as the queued mail for a send, and the staged files go once *)
(* that has committed; a sweep at startup takes old files no draft names.  *)
(*                                                                         *)
(* A draft is the set of words its user has put into it, and the files; a  *)
(* file is named by the draft it was staged for and a count.               *)
(* Every composer opened here is written in: an untouched one is no draft. *)
(* Left out: refusals that repeat until the draft changes (400, 422), and  *)
(* what a user does to a window while its send is out.                     *)
(***************************************************************************)
EXTENDS Integers, FiniteSets, Functions

CONSTANTS
    Tab,          \* browser tabs
    MaxRow,       \* bound: rows created
    Budgets,      \* bounds: how often each of Limited may happen, one or the other
    Blind         \* may a tab take over a revision without its text?

\* Words typed, files staged, composers opened, drafts forked, Send pressed, drafts
\* and chips thrown away, requests or answers lost, pages gone, pages loaded without
\* a list of drafts, restarts.
Limited == {"word", "file", "open", "fork", "send", "throw", "lost", "load", "offline", "restart"}

ASSUME DraftsAssumption ==
    /\ IsFiniteSet(Tab) /\ Blind \in BOOLEAN
    /\ MaxRow \in Nat /\ Budgets \subseteq [Limited -> Nat] /\ Budgets # {}

VARIABLES
    row,          \* outbound rows in state "draft", by id
    nextid,
    disk, aged,   \* staged files, and those older than STAGING_TTL_SECONDS
    up,           \* the tabs whose page is loaded
    held,         \* a tab's drafts, by key
    screen,       \* the one in its window, or 0
    gone,         \* keys a tab sent or threw away
    nextkey,
    reqs,         \* saves on the wire
    deletes,      \* DELETEs on the wire
    post,         \* a tab's send
    listing,      \* what a tab's reconcile fetched
    local,        \* localStorage, by key
    reopen,       \* sessionStorage OPEN_KEY
    sent,         \* history: words in queued mail
    typed, staged,\* history: words typed and files staged, as counts
    thrown,       \* history: words their user threw away
    letGo,        \* history: <<k, f>> once key k has done with file f; Nowhere, once it was swept
    shared,       \* history: files of a draft that forked, which both halves name
    overrun,      \* history: words lost to what the code does not guard against
    own,          \* history: ids of the rows a tab's page was the last to save
    unsure,       \* history: keys a tab was never told the fate of
    left          \* what is left of the budget

server  == <<row, nextid, disk, aged>>
page    == <<up, held, screen, gone, nextkey, listing>>
wire    == <<reqs, deletes, post>>
store   == <<local, reopen>>
past    == <<sent, typed, staged, thrown, letGo, shared, own, unsure>>
history == <<past, overrun>>
vars    == <<server, page, wire, store, history, left>>

-----------------------------------------------------------------------------
Nowhere == 0             \* no id, no key
NoSig   == <<>>          \* savedSig of a draft the server does not have
NoPost  == [phase |-> "none"]
NoList  == [ids |-> {}, rows |-> <<>>]

Draft(id, rev, words, files, sig) ==
    [id |-> id, rev |-> rev, words |-> words, files |-> files, sig |-> sig, blind |-> FALSE]
Sig(d)   == <<d.words, d.files>>
Dirty(d) == Sig(d) # d.sig
Detached(d) == [d EXCEPT !.id = Nowhere, !.rev = 0, !.sig = NoSig]

Drop(f, k)    == Restrict(f, DOMAIN f \ {k})
Put(f, k, v)  == [x \in DOMAIN f \cup {k} |-> IF x = k THEN v ELSE f[x]]
Uses(b)       == left[b] > 0 /\ left' = [left EXCEPT ![b] = @ - 1]
Sending(t)    == IF post[t].phase \in {"waits", "out", "answered"} THEN post[t].key ELSE Nowhere
OnWire(rs, t, k) == \E r \in rs : r.live /\ r.tab = t /\ r.key = k

\* A draft as localStorage has it: all of it, with the tab that wrote it.
CopyOf(t, d) ==
    [owner |-> t, id |-> d.id, rev |-> d.rev, words |-> d.words, files |-> d.files, blind |-> d.blind]

\* persistLocal: what a tab holding hs, and done with gs, leaves in loc.
Persisted(loc, t, hs, gs) ==
    LET dirty == {k \in DOMAIN hs : k \notin gs /\ Dirty(hs[k])}
        clean == (DOMAIN hs \ dirty) \cup gs
    IN  [k \in (DOMAIN loc \ clean) \cup dirty |->
            IF k \in dirty THEN CopyOf(t, hs[k])
                           ELSE loc[k]]

\* Writing localStorage.  Its copies are one tab's each, yet any tab's write may
\* take another's: what was in those is lost to a page that has closed.
Trampled(t, loc) ==
    UNION {local[k].words : k \in {x \in DOMAIN local :
              /\ local[x].owner # t
              /\ x \in DOMAIN loc => loc[x].owner = t}}
Store(t, loc) == local' = loc /\ overrun' = overrun \cup Trampled(t, loc)

\* The revision whose text a draft has, or none.
Seen(d) == IF d.blind THEN 0 ELSE d.rev

\* saveDraft: the requests once tab t, holding hs, has tried to save key k.
SaveDraft(rs, t, hs, gs, sending, k) ==
    IF k \in DOMAIN hs /\ k \notin gs /\ k # sending /\ ~OnWire(rs, t, k) /\ Dirty(hs[k])
    THEN rs \cup {[tab |-> t, live |-> TRUE, key |-> k, id |-> hs[k].id, base |-> hs[k].rev,
                   words |-> hs[k].words, files |-> hs[k].files, blind |-> hs[k].blind,
                   ans |-> "none", newid |-> 0, newrev |-> 0, missing |-> {}]}
    ELSE rs
SaveAll(rs, t, hs, gs, sending) ==
    rs \cup UNION {SaveDraft(rs, t, hs, gs, sending, k) : k \in DOMAIN hs}

\* fromServer: a row as a draft, without the files _draft_out found missing.
FromServer(id, r, missing) ==
    [Draft(id, r.rev, r.words, r.files \ missing, NoSig)
        EXCEPT !.sig = IF r.files \cap missing # {} THEN NoSig ELSE <<r.words, r.files>>]

Init ==
    /\ row = <<>> /\ nextid = 1 /\ disk = {} /\ aged = {}
    /\ up = Tab /\ held = [t \in Tab |-> <<>>] /\ screen = [t \in Tab |-> Nowhere]
    /\ gone = [t \in Tab |-> {}] /\ nextkey = 1 /\ listing = [t \in Tab |-> NoList]
    /\ reqs = {} /\ deletes = {} /\ post = [t \in Tab |-> NoPost]
    /\ local = <<>> /\ reopen = [t \in Tab |-> Nowhere]
    /\ sent = {} /\ typed = 0 /\ staged = 0 /\ thrown = {} /\ letGo = {} /\ shared = {} /\ overrun = {}
    /\ own = [t \in Tab |-> {}] /\ unsure = {}
    /\ left \in Budgets

-----------------------------------------------------------------------------
\* Writing.

\* openWith and the first word; a forward comes with the original's file, which
\* _forward_attachments staged (unless that mail's content was pruned).
Compose(t, forward) ==
    /\ t \in up /\ screen[t] = Nowhere /\ typed < left["word"] /\ Uses("open")
    /\ forward => staged < left["file"]
    /\ LET files == IF forward THEN {<<nextkey, staged + 1>>} ELSE {}
       IN  /\ held' = [held EXCEPT ![t] = Put(@, nextkey, Draft(Nowhere, 0, {typed + 1}, files, NoSig))]
           /\ disk' = disk \cup files /\ staged' = staged + Cardinality(files)
    /\ screen' = [screen EXCEPT ![t] = nextkey]
    /\ nextkey' = nextkey + 1 /\ typed' = typed + 1
    /\ UNCHANGED <<row, nextid, aged, up, gone, listing, wire, store, sent, own, thrown, letGo, shared, overrun, unsure>>

Write(t) ==
    /\ t \in up /\ screen[t] # Nowhere /\ post[t] = NoPost /\ typed < left["word"]
    /\ typed' = typed + 1
    /\ held' = [held EXCEPT ![t][screen[t]].words = @ \cup {typed'}]
    /\ UNCHANGED <<server, up, screen, gone, nextkey, listing, wire, store, sent, staged, own, thrown, letGo, shared, overrun, unsure, left>>

\* upload_attachment, _stage_upload and the composer's stage().
Attach(t) ==
    /\ t \in up /\ screen[t] # Nowhere /\ post[t] = NoPost /\ staged < left["file"]
    /\ staged' = staged + 1
    /\ LET f == <<screen[t], staged + 1>>
       IN  disk' = disk \cup {f} /\ held' = [held EXCEPT ![t][screen[t]].files = @ \cup {f}]
    /\ UNCHANGED <<row, nextid, aged, up, screen, gone, nextkey, listing, wire, store, sent, typed, own, thrown, letGo, shared, overrun, unsure, left>>

\* The × of a chip: delete_attachment at once, the draft with its next save.
RemoveChip(t) ==
    /\ t \in up /\ screen[t] # Nowhere /\ post[t] = NoPost
    /\ \E f \in held[t][screen[t]].files :
         /\ held' = [held EXCEPT ![t][screen[t]].files = @ \ {f}]
         /\ disk' = disk \ {f} /\ letGo' = letGo \cup {<<screen[t], f>>}
    /\ Uses("throw")
    /\ UNCHANGED <<row, nextid, aged, up, screen, gone, nextkey, listing, wire, store, sent, typed, staged, own, thrown, shared, overrun, unsure>>

\* The timers of edited(), retryLater() and a page put in the background.
Autosave(t, k) ==
    /\ t \in up /\ k \in DOMAIN held[t]
    /\ reqs' = SaveDraft(reqs, t, held[t], gone[t], Sending(t), k) /\ reqs' # reqs
    /\ UNCHANGED <<server, page, deletes, post, store, history, left>>
Persist(t) ==
    /\ t \in up
    /\ Store(t, Persisted(local, t, held[t], gone[t])) /\ local' # local
    /\ UNCHANGED <<server, page, wire, reopen, past, left>>

Minimize(t) ==
    /\ t \in up /\ screen[t] # Nowhere /\ post[t] = NoPost
    /\ screen' = [screen EXCEPT ![t] = Nowhere]
    /\ reqs' = SaveDraft(reqs, t, held[t], gone[t], Nowhere, screen[t])
    /\ Store(t, Persisted(local, t, held[t], gone[t]))
    /\ UNCHANGED <<server, up, held, gone, nextkey, listing, deletes, post, reopen, past, left>>

\* A window that is taken is minimized first (makeRoom), which is a step above.
Restore(t, k) ==
    /\ t \in up /\ k \in DOMAIN held[t] /\ screen[t] = Nowhere
    /\ screen' = [screen EXCEPT ![t] = k]
    /\ UNCHANGED <<server, up, held, gone, nextkey, listing, wire, store, history, left>>

-----------------------------------------------------------------------------
\* A save reaches the server: create_draft, or save_draft.

Answer(r, rs, ans) == IF r.live THEN (rs \ {r}) \cup {ans} ELSE rs \ {r}

\* _locked_draft, and the comparison with the revision the save was based on.
Unchecked(r) == IF r.id # Nowhere /\ r.id \notin DOMAIN row THEN "404" ELSE "saved"   \* variant
Refusal(r) ==
    IF r.id = Nowhere THEN "saved"
    ELSE IF r.id \notin DOMAIN row THEN "404"
    ELSE IF row[r.id].rev # r.base THEN "409" ELSE "saved"

ServerSaves(r) ==
    /\ r \in reqs /\ r.ans = "none"
    /\ r.id = Nowhere => nextid <= MaxRow
    /\ LET ans == Refusal(r)
           id  == IF r.id = Nowhere THEN nextid ELSE r.id
           rev == IF r.id = Nowhere THEN 1 ELSE r.base + 1
       IN  IF ans = "saved"
           THEN /\ row' = Put(row, id, [rev |-> rev, words |-> r.words, files |-> r.files, key |-> r.key])
                /\ own' = [t \in Tab |-> IF t = r.tab /\ r.live THEN own[t] \cup {id} ELSE own[t] \ {id}]
                /\ nextid' = IF r.id = Nowhere THEN nextid + 1 ELSE nextid
                /\ reqs' = Answer(r, reqs, [r EXCEPT !.ans = ans, !.newid = id, !.newrev = rev,
                                                     !.missing = r.files \ disk])
                /\ overrun' = IF r.blind /\ r.id # Nowhere THEN overrun \cup (row[id].words \ r.words) ELSE overrun
           ELSE /\ reqs' = Answer(r, reqs, [r EXCEPT !.ans = ans])
                /\ UNCHANGED <<row, nextid, overrun, own>>
    /\ UNCHANGED <<disk, aged, page, deletes, post, store, sent, typed, staged, thrown, letGo, shared, unsure, left>>

\* The network eats a save or its answer; a page that has gone away aborts its own.
LoseSave(r) ==
    /\ r \in reqs /\ r.ans # "lost"
    /\ \/ r.live /\ Uses("lost") /\ reqs' = (reqs \ {r}) \cup {[r EXCEPT !.ans = "lost"]}
       \/ ~r.live /\ reqs' = reqs \ {r} /\ UNCHANGED left
    /\ unsure' = unsure \cup {r.key}
    /\ UNCHANGED <<server, page, deletes, post, store, sent, typed, staged, own, thrown, letGo, shared, overrun>>

\* dropMissing: files the server no longer has come off the draft.
Saved(d, r) == [d EXCEPT !.id = r.newid, !.rev = r.newrev, !.sig = <<r.words, r.files>>,
                         !.files = @ \ r.missing, !.blind = FALSE]

\* Thrown away or sent while its save was out: a row that save created is one
\* the × could not have known to delete.
LeftBehind(r) == {}   \* variant
Abandoned(r) == IF r.id = Nowhere THEN {[id |-> r.newid, rev |-> r.newrev, key |-> r.key]} ELSE {}

SaveAnswered(r) ==
    /\ r \in reqs /\ r.live /\ r.ans = "saved"
    /\ LET t == r.tab
           k == r.key
       IN  IF k \in gone[t]
           THEN /\ deletes' = deletes \cup Abandoned(r)
                /\ reqs' = reqs \ {r}
                /\ UNCHANGED <<held, local, overrun>>
           ELSE LET hs == IF k \in DOMAIN held[t] THEN [held[t] EXCEPT ![k] = Saved(@, r)] ELSE held[t]
                IN  /\ held' = [held EXCEPT ![t] = hs]
                    /\ Store(t, IF k \in DOMAIN hs /\ ~Dirty(hs[k]) THEN Drop(local, k) ELSE local)
                    /\ reqs' = IF k # screen[t] /\ r.missing # {}
                               THEN SaveDraft(reqs \ {r}, t, hs, gone[t], Sending(t), k) ELSE reqs \ {r}
                    /\ UNCHANGED deletes
    /\ UNCHANGED <<server, up, screen, gone, nextkey, listing, post, reopen, past, left>>

\* 404: sent or thrown away elsewhere, and still being written here.
SavedNowhere(r) ==
    /\ r \in reqs /\ r.live /\ r.ans = "404"
    /\ LET t  == r.tab
           hs == IF r.key \in DOMAIN held[t] THEN [held[t] EXCEPT ![r.key] = Detached(@)] ELSE held[t]
       IN  /\ held' = [held EXCEPT ![t] = hs]
           /\ reqs' = SaveDraft(reqs \ {r}, t, hs, gone[t], Sending(t), r.key)
    /\ UNCHANGED <<server, up, screen, gone, nextkey, listing, deletes, post, store, history, left>>

\* 409: saved over from another tab, so this version becomes a draft of its own.  It
\* takes the other's files along: both drafts name them from here on.
Forked(d) == Detached(d)

SaveForks(r) ==
    /\ r \in reqs /\ r.live /\ r.ans = "409" /\ Uses("fork")
    /\ LET t  == r.tab
           k  == r.key
           hs == IF k \in DOMAIN held[t] THEN Put(Drop(held[t], k), nextkey, Forked(held[t][k])) ELSE held[t]
       IN  /\ held' = [held EXCEPT ![t] = hs]
           /\ screen' = IF screen[t] = k THEN [screen EXCEPT ![t] = nextkey] ELSE screen
           /\ post' = IF Sending(t) = k THEN [post EXCEPT ![t].key = nextkey] ELSE post
           /\ reqs' = SaveDraft(reqs \ {r}, t, hs, gone[t], IF Sending(t) = k THEN nextkey ELSE Sending(t), nextkey)
           /\ shared' = shared \cup (IF k \in DOMAIN held[t] THEN held[t][k].files ELSE {})
                               \cup (IF Sending(t) = k THEN post[t].files ELSE {})
           /\ Store(t, Drop(local, k))
    /\ nextkey' = nextkey + 1
    /\ UNCHANGED <<server, up, gone, listing, deletes, reopen, sent, typed, staged, own, thrown, letGo, unsure>>

SaveFailed(r) ==
    /\ r \in reqs /\ r.live /\ r.ans = "lost"
    /\ reqs' = reqs \ {r}
    /\ Store(r.tab, Persisted(local, r.tab, held[r.tab], gone[r.tab]))
    /\ UNCHANGED <<server, page, deletes, post, reopen, past, left>>

-----------------------------------------------------------------------------
\* Sending.  The mail is read off the window when Send is pressed, then waits
\* for a save already on the wire.

Send(t) ==
    /\ t \in up /\ screen[t] # Nowhere /\ post[t] = NoPost
    /\ LET d == held[t][screen[t]]
       IN  post' = [post EXCEPT ![t] = [phase |-> "waits", key |-> screen[t], words |-> d.words,
                                        files |-> d.files, id |-> Nowhere, rev |-> 0, ans |-> "none"]]
    /\ Uses("send")
    /\ UNCHANGED <<server, page, reqs, deletes, store, history>>

PostSend(t) ==
    /\ t \in up /\ post[t].phase = "waits" /\ ~OnWire(reqs, t, post[t].key)
    /\ LET d == held[t][post[t].key]
       IN  post' = [post EXCEPT ![t].phase = "out", ![t].id = d.id, ![t].rev = Seen(d)]
    /\ UNCHANGED <<server, page, reqs, deletes, store, history, left>>

\* send(): the mail is queued and the draft's row deleted in one commit, and the
\* files are unlinked after it (crash says they were not).
Consumed(p) == DOMAIN row \cap {p.id}

ServerSends(t, crash) ==
    /\ post[t].phase = "out"
    /\ IF post[t].files \subseteq disk
       THEN /\ sent' = sent \cup post[t].words
            /\ row' = Restrict(row, DOMAIN row \ Consumed(post[t]))
            /\ disk' = IF crash THEN disk ELSE disk \ post[t].files
            /\ letGo' = letGo \cup ({post[t].key} \X post[t].files)
            /\ overrun' = overrun \cup UNION {row[i].words : i \in {j \in Consumed(post[t]) : row[j].rev # post[t].rev}}
            /\ post' = [post EXCEPT ![t].phase = "answered", ![t].ans = IF crash THEN "lost" ELSE "sent"]
       ELSE /\ ~crash /\ post' = [post EXCEPT ![t].phase = "answered", ![t].ans = "refused"]
            /\ UNCHANGED <<row, disk, sent, letGo, overrun>>
    /\ IF crash THEN Uses("lost") /\ unsure' = unsure \cup {post[t].key}
                ELSE UNCHANGED <<left, unsure>>
    /\ UNCHANGED <<nextid, aged, page, reqs, deletes, store, typed, staged, own, thrown, shared>>

LoseSend(t) ==
    /\ \/ post[t].phase = "out"
       \/ post[t].phase = "answered" /\ post[t].ans = "sent"
    /\ Uses("lost")
    /\ post' = [post EXCEPT ![t].phase = "answered", ![t].ans = "lost"]
    /\ unsure' = unsure \cup {post[t].key}
    /\ UNCHANGED <<server, page, reqs, deletes, store, sent, typed, staged, own, thrown, letGo, shared, overrun>>

\* The draft is let go of, and the window closed 700 ms later.
SendAnswered(t) ==
    /\ t \in up /\ post[t].phase = "answered" /\ post[t].ans = "sent"
    /\ LET k == post[t].key
       IN  /\ gone' = [gone EXCEPT ![t] = @ \cup {k}]
           /\ held' = [held EXCEPT ![t] = Drop(@, k)]
           /\ screen' = IF screen[t] = k THEN [screen EXCEPT ![t] = Nowhere] ELSE screen
           /\ Store(t, Drop(local, k))
    /\ post' = [post EXCEPT ![t] = NoPost]
    /\ UNCHANGED <<server, up, nextkey, listing, reqs, deletes, reopen, past, left>>

\* Still a draft, and one somebody tried to send.
SendFailed(t) ==
    /\ t \in up /\ post[t].phase = "answered" /\ post[t].ans # "sent"
    /\ post' = [post EXCEPT ![t] = NoPost]
    /\ UNCHANGED <<server, page, reqs, deletes, store, history, left>>

-----------------------------------------------------------------------------
\* Throwing away: the × of the window or of a chip on the bar.  close() and
\* discard() drop the draft's row and, by themselves, the files they hold.

Throw(t, k) ==
    /\ t \in up /\ k \in DOMAIN held[t] /\ Sending(t) # k
    /\ LET d  == held[t][k]
           hs == Drop(held[t], k)
           gs == gone[t] \cup {k}
       IN  /\ held' = [held EXCEPT ![t] = hs] /\ gone' = [gone EXCEPT ![t] = gs]
           /\ deletes' = IF d.id = Nowhere THEN deletes ELSE deletes \cup {[id |-> d.id, rev |-> Seen(d), key |-> k]}
           /\ Store(t, Persisted(local, t, hs, gs))
           /\ disk' = disk \ d.files /\ letGo' = letGo \cup ({k} \X d.files)
           /\ thrown' = thrown \cup d.words
    /\ screen' = IF screen[t] = k THEN [screen EXCEPT ![t] = Nowhere] ELSE screen
    /\ Uses("throw")
    /\ UNCHANGED <<row, nextid, aged, up, nextkey, listing, reqs, post, reopen, sent, typed, staged, own, shared, unsure>>

\* delete_draft: the row, and once that has committed the files it named.
ServerDeletes(x, crash) ==
    /\ x \in deletes
    /\ LET hit == DOMAIN row \cap {x.id}
       IN  /\ row' = Restrict(row, DOMAIN row \ hit)
           /\ disk' = IF crash THEN disk ELSE disk \ UNION {row[i].files : i \in hit}
           /\ letGo' = letGo \cup UNION {{row[i].key} \X row[i].files : i \in hit}
           /\ overrun' = overrun \cup UNION {row[i].words : i \in {j \in hit : row[j].rev # x.rev}}
    /\ deletes' = deletes \ {x}
    /\ IF crash THEN Uses("lost") ELSE UNCHANGED left
    /\ UNCHANGED <<nextid, aged, page, reqs, post, store, sent, typed, staged, own, thrown, shared, unsure>>

\* deleteDraft(id).catch(() => {}): nobody asks again.
LoseDelete(x) ==
    /\ x \in deletes /\ Uses("lost")
    /\ deletes' = deletes \ {x} /\ unsure' = unsure \cup {x.key}
    /\ UNCHANGED <<server, page, reqs, post, store, sent, typed, staged, own, thrown, letGo, shared, overrun>>

-----------------------------------------------------------------------------
\* Keeping up with other tabs: the drafts event of the SSE stream.

\* lostElsewhere, of one draft: kept if it is on screen or holds words the
\* server never took, dropped from the bar if not.
KeptOnScreen(t, hs, k) == k = screen[t]   \* variant: unsaved words on the bar go too
Kept(t, hs, k) == k = screen[t] \/ Dirty(hs[k])

LostElsewhere(t, k) ==
    /\ t \in up /\ k \in DOMAIN held[t] \ gone[t]
    /\ held[t][k].id # Nowhere /\ held[t][k].id \notin DOMAIN row
    /\ IF Kept(t, held[t], k)
       THEN LET hs == [held[t] EXCEPT ![k] = Detached(@)]
            IN  /\ held' = [held EXCEPT ![t] = hs]
                /\ reqs' = IF k # screen[t] THEN SaveDraft(reqs, t, hs, gone[t], Sending(t), k) ELSE reqs
                /\ UNCHANGED <<gone, local, overrun>>
       ELSE LET hs == Drop(held[t], k)
                gs == gone[t] \cup {k}
            IN  /\ held' = [held EXCEPT ![t] = hs] /\ gone' = [gone EXCEPT ![t] = gs]
                /\ Store(t, Persisted(local, t, hs, gs))
                /\ UNCHANGED reqs
    /\ UNCHANGED <<server, up, screen, nextkey, listing, deletes, post, reopen, past, left>>

\* reconcile, in two steps: the list the server answers, and what is made of it.
Behind(t, id) == \A k \in DOMAIN held[t] : held[t][k].id = id => held[t][k].rev < row[id].rev

FetchDrafts(t) ==
    /\ t \in up /\ listing[t] = NoList
    /\ \E id \in DOMAIN row : row[id].key \notin gone[t] /\ Behind(t, id)
    /\ listing' = [listing EXCEPT ![t] =
                     [ids |-> {held[t][k].id : k \in DOMAIN held[t]} \ {Nowhere},
                      rows |-> [i \in DOMAIN row |->
                          [draft |-> FromServer(i, row[i], row[i].files \ disk), key |-> row[i].key]]]]
    /\ UNCHANGED <<server, up, held, screen, gone, nextkey, wire, store, history, left>>

\* One row of the list laid over the drafts hs.
Known(hs, id, r) ==
    IF r.key \in DOMAIN hs THEN {r.key} ELSE {k \in DOMAIN hs : hs[k].id = id}
Adopted(d, id, r) == [d EXCEPT !.id = id, !.rev = r.draft.rev, !.blind = TRUE]
Replaces(t, d, k, id, r) == d.id = id /\ r.draft.rev > d.rev /\ ~Kept(t, [x \in {k} |-> d], k)

Reconciled(t, hs, id, r) ==
    IF r.key \in gone[t] THEN hs
    ELSE IF Known(hs, id, r) = {} THEN Put(hs, r.key, r.draft)
    ELSE LET k == CHOOSE x \in Known(hs, id, r) : TRUE
             d == hs[k]
         IN  IF d.id = Nowhere THEN [hs EXCEPT ![k] = Adopted(d, id, r)]
             ELSE IF Replaces(t, d, k, id, r) THEN Put(Drop(hs, k), r.key, r.draft)
             ELSE hs

\* All of it, row by row.
Laid(t) ==
    LET lay[i \in 0..nextid] ==
            IF i = 0 THEN held[t]
            ELSE IF i \in DOMAIN listing[t].rows THEN Reconciled(t, lay[i-1], i, listing[t].rows[i])
            ELSE lay[i-1]
    IN lay[nextid]

Reconcile(t) ==
    /\ t \in up /\ listing[t] # NoList
    /\ LET hs   == Laid(t)
           lost == {k \in DOMAIN hs \ gone[t] : hs[k].id \in listing[t].ids \ DOMAIN listing[t].rows}
           let  == {k \in lost : ~Kept(t, hs, k)}
           hs2  == [k \in DOMAIN hs \ let |-> IF k \in lost THEN Detached(hs[k]) ELSE hs[k]]
       IN  /\ Blind \/ \A k \in DOMAIN hs2 : hs2[k].blind => hs2[k] \in Range(held[t])
           /\ held' = [held EXCEPT ![t] = hs2]
           /\ gone' = [gone EXCEPT ![t] = @ \cup let]
           /\ Store(t, IF let # {} THEN Persisted(local, t, hs2, gone'[t]) ELSE local)
           /\ reqs' = reqs \cup UNION {SaveDraft(reqs, t, hs2, gone'[t], Sending(t), k) : k \in (lost \ let) \ {screen[t]}}
    /\ listing' = [listing EXCEPT ![t] = NoList]
    /\ UNCHANGED <<server, up, screen, nextkey, deletes, post, reopen, past, left>>

-----------------------------------------------------------------------------
\* The page goes away, by pagehide or by a crash, and comes back.

Stray(t) == {IF r.tab = t THEN [r EXCEPT !.live = FALSE] ELSE r : r \in {x \in reqs : ~(x.tab = t /\ x.ans # "none")}}

Leave(t) ==
    /\ t \in up /\ post[t] = NoPost /\ Uses("load")
    /\ up' = up \ {t} /\ held' = [held EXCEPT ![t] = <<>>] /\ screen' = [screen EXCEPT ![t] = Nowhere]
    /\ gone' = [gone EXCEPT ![t] = {}] /\ listing' = [listing EXCEPT ![t] = NoList]
    /\ reqs' = Stray(t)
    /\ unsure' = unsure \cup {r.key : r \in {x \in reqs : x.tab = t}}
    /\ own' = [own EXCEPT ![t] = {}]
    /\ UNCHANGED <<server, nextkey, deletes, post, sent, typed, staged, thrown, letGo, shared>>
ClosePage(t) ==
    /\ Leave(t)
    /\ Store(t, Persisted(local, t, held[t], gone[t]))
    /\ reopen' = [reopen EXCEPT ![t] = screen[t]]
CrashPage(t) ==
    /\ Leave(t)
    /\ overrun' = overrun \cup UNION {held[t][k].words : k \in {x \in DOMAIN held[t] : Dirty(held[t][x])}}
    /\ UNCHANGED <<local, reopen>>

\* loadDrafts: the server's rows, and this browser's unacknowledged edits over
\* them.  A copy another tab wrote is left to it unless that tab has gone and
\* STALE_MS is over (waited).  Offline there are no rows to lay them over: a copy
\* comes back as it was kept, and none is taken for one whose row is gone.
Mine(t, waited) ==
    {k \in DOMAIN local : local[k].owner = t \/ (local[k].owner \notin up /\ waited)}
Row(k)  == {i \in DOMAIN row : row[i].key = k}
RowOf(k) == CHOOSE i \in Row(k) : \A j \in Row(k) : i <= j
LocalDraft(k, offline) ==
    LET e == local[k]
        i == RowOf(k)
    IN  IF Row(k) = {} \/ offline
        THEN [Draft(e.id, e.rev, e.words, e.files, NoSig) EXCEPT !.blind = e.blind]
        ELSE [Draft(i, row[i].rev, e.words, e.files, NoSig) EXCEPT !.blind = ~(row[i].words \subseteq e.words)]
Forgotten(k) == Row(k) = {} /\ local[k].id # Nowhere

LoadPage(t, waited, offline) ==
    /\ t \notin up
    /\ LET old  == IF offline THEN {} ELSE {k \in Mine(t, waited) : Forgotten(k)}
           mine == Mine(t, waited) \ old
           keys == (IF offline THEN {} ELSE {row[i].key : i \in DOMAIN row}) \ mine
           hs   == [k \in keys \cup mine |->
                      IF k \in mine THEN LocalDraft(k, offline)
                      ELSE FromServer(RowOf(k), row[RowOf(k)], row[RowOf(k)].files \ disk)]
       IN  /\ Blind \/ \A k \in mine : ~LocalDraft(k, offline).blind
           /\ held' = [held EXCEPT ![t] = hs]
           /\ screen' = [screen EXCEPT ![t] = IF reopen[t] \in DOMAIN hs THEN reopen[t] ELSE Nowhere]
           /\ reqs' = SaveAll(reqs, t, hs, {}, Nowhere)
           /\ local' = Persisted(Restrict(local, DOMAIN local \ old), t, hs, {})
           /\ overrun' = overrun \cup Trampled(t, local') \cup UNION {local[k].words : k \in old}
    /\ IF offline THEN Uses("offline") ELSE UNCHANGED left
    /\ up' = up \cup {t} /\ reopen' = [reopen EXCEPT ![t] = Nowhere]
    /\ UNCHANGED <<server, gone, nextkey, listing, deletes, post, sent, typed, staged, own, thrown, letGo, shared, unsure>>

-----------------------------------------------------------------------------
\* The server restarts, a day later or at once.  sweep_at_startup spares what
\* draft_staging_ids names, and does nothing when the drafts cannot be read.
Claimed == UNION {row[i].files : i \in DOMAIN row}
SweepAll(old) == old   \* variant: age alone decides
Sweep(old) == {f \in old : f \notin Claimed}

Restart(days, readable) ==
    /\ Uses("restart")
    /\ LET old == IF days THEN disk ELSE aged
           out == IF readable THEN Sweep(old) ELSE {}
       IN  aged' = old \ out /\ disk' = disk \ out /\ letGo' = letGo \cup ({Nowhere} \X {f \in out : f \notin Claimed})
    /\ UNCHANGED <<row, nextid, page, wire, store, sent, typed, staged, own, thrown, shared, overrun, unsure>>

-----------------------------------------------------------------------------
TabStep(t) ==
    \/ \E k \in DOMAIN held[t] : Autosave(t, k)
    \/ Persist(t)
    \/ PostSend(t) \/ SendAnswered(t) \/ SendFailed(t)
    \/ \E k \in DOMAIN held[t] : LostElsewhere(t, k)
    \/ FetchDrafts(t) \/ Reconcile(t)
    \/ \E waited \in BOOLEAN : LoadPage(t, waited, FALSE)

ServerStep ==
    \/ \E r \in reqs : ServerSaves(r) \/ SaveAnswered(r) \/ SavedNowhere(r) \/ SaveForks(r) \/ SaveFailed(r)
    \/ \E t \in Tab : ServerSends(t, FALSE)
    \/ \E x \in deletes : ServerDeletes(x, FALSE)

UserStep(t) ==
    \/ \E forward \in BOOLEAN : Compose(t, forward)
    \/ Write(t) \/ Attach(t) \/ RemoveChip(t) \/ Minimize(t) \/ Send(t)
    \/ \E k \in DOMAIN held[t] : Restore(t, k) \/ Throw(t, k)

Fault ==
    \/ \E r \in reqs : LoseSave(r)
    \/ \E t \in Tab : LoseSend(t) \/ ServerSends(t, TRUE) \/ ClosePage(t) \/ CrashPage(t)
    \/ \E t \in Tab, waited \in BOOLEAN : LoadPage(t, waited, TRUE)
    \/ \E x \in deletes : LoseDelete(x) \/ ServerDeletes(x, TRUE)
    \/ \E days, readable \in BOOLEAN : Restart(days, readable)

Next == ServerStep \/ Fault \/ \E t \in Tab : TabStep(t) \/ UserStep(t)
Spec == Init /\ [][Next]_vars

-----------------------------------------------------------------------------
DraftWords(f) == UNION {f[k].words : k \in DOMAIN f}
Words == DraftWords(row) \cup DraftWords(local) \cup UNION {DraftWords(held[t]) : t \in Tab}

\* No word is lost: whatever somebody typed is in a row, in a page, in this
\* browser's storage or in mail that was sent, unless its user threw it away.
WordsKept == 1 .. typed \subseteq Words \cup sent \cup thrown \cup overrun

\* A save never takes words out of a row that its tab has not seen.
SavesKeep == [][\A i \in DOMAIN row \cap DOMAIN row' : row[i].words \subseteq row'[i].words \cup overrun']_vars

\* A draft's files are on disk for as long as a row names them, unless that draft
\* itself has done with them (its chip's ×, its own throwing away, its own sending) or
\* they were swept while no row named them.  Neither the sweep nor another draft's end
\* takes them, but for one case that the code does not guard, see ForkKeepsFiles: the
\* two halves of a fork name the same files, and either half may have done with them.
Removed(k, f) == <<k, f>> \in letGo \/ <<Nowhere, f>> \in letGo
SomeoneRemoved(f) == \E x \in letGo : x[2] = f
FilesKept ==
    \A i \in DOMAIN row : \A f \in row[i].files \ disk :
        Removed(row[i].key, f) \/ (f \in shared /\ SomeoneRemoved(f))

\* What staging.py:93-95 says of the files a saved draft names: they are left alone, and
\* "go when the draft is sent or discarded".  A draft that forked has a twin with the
\* same files, and the end of either half unlinks them under the other.
ForkKeepsFiles == \A i \in DOMAIN row : \A f \in row[i].files \ disk : Removed(row[i].key, f)

\* What a tab has sent or thrown away does not come back: a row under its key that this
\* page was the last to save is on its way out, or the answer is that will have it deleted.
StaysGone ==
    \A t \in up : \A k \in gone[t] \ unsure : \A i \in Row(k) \cap own[t] :
        \/ \E x \in deletes : x.id = i
        \/ \E r \in reqs : r.live /\ r.tab = t /\ r.key = k /\ r.id = Nowhere /\ r.newid = i

\* What persistLocal says of itself: other tabs' entries are left be.  It does
\* not keep to that: a tab whose copy is clean deletes whatever is under its key.
OthersLeftBe == [][\A t \in Tab : Persist(t) => Trampled(t, local') = {}]_vars
=============================================================================
