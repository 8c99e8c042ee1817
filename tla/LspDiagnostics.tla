--------------------------- MODULE LspDiagnostics ---------------------------
(***************************************************************************)
(* The language server of the compiler (lazuli_lsp, backend_p1.rs): the    *)
(* document store, the two layers of diagnostics and the apply-fix         *)
(* command, with the editor on the other side of the pipe.                 *)
(*                                                                         *)
(* "lazuli lsp" runs everything on one thread, so code between two awaits  *)
(* is atomic.  The locks are never held over an await, hence never         *)
(* contended: a handler is first suspended where it sends to the client,   *)
(* whose channel holds one message.  A message counts as shown when it is  *)
(* sent: the channel keeps the order.  Handlers start in the order of      *)
(* their messages, at most Workers of them are unfinished, and they resume *)
(* in any order.  Every document is a file.                                *)
(*                                                                         *)
(* A text is a version number, given out in the order the texts came to    *)
(* be.  Diagnostics are what they were computed from: the file-local ones  *)
(* from a text and a configuration, the package findings behind them from  *)
(* the files as they were on disk, unsaved edits left out.                 *)
(***************************************************************************)
EXTENDS Naturals, Sequences, FiniteSets

CONSTANTS
    Docs,        \* the workspace's files
    Manifest,    \* Lazurite.toml
    Workers,     \* unfinished handlers of the tower-lsp server, 4
    Closed,      \* not in the document store
    NotRun,      \* no package findings: the engine has not run, or panicked
    LoadFailed,  \* the one finding of a package that does not load
    Broken,      \* texts with which the package does not load
    MaxText,     \* bound on the texts
    MaxMessages, \* bound on the messages of the client
    MaxPanics    \* bound on the panics of the package engine

ASSUME LspAssumption ==
    /\ Manifest \in Docs
    /\ Workers \in Nat \ {0}
    /\ {MaxText, MaxMessages, MaxPanics} \subseteq Nat
    /\ Broken \subseteq Nat
    /\ Closed \notin Nat
    /\ NotRun # LoadFailed

VARIABLES
    root,       \* workspace_root is known
    documents,  \* the server's text of each open document
    generation, \* doctor_run_generation
    handlers,   \* suspended handlers
    tasks,      \* the spawned background runs
    inbox,      \* messages of the client not yet handled
    shown,      \* the diagnostics the client was last sent
    editor,     \* the editor's text of each document
    dirty,      \* documents with unsaved edits
    disk,       \* the text of each file
    texts,      \* texts given out so far
    messages,   \* messages sent so far
    \* history
    published,  \* what the newest handler of each document sent
    latest,     \* the handler that took the current generation
    panicked,   \* generations whose engine run panicked
    raced,      \* documents a result reached behind a newer message
    overwritten,\* documents whose unsaved edits a fix replaced in the store
    unread      \* a file was written after the newest generation's engine ran

editorVars  == <<editor, dirty, texts, messages>>
historyVars == <<published, latest, panicked, raced, overwritten, unread>>
vars == <<root, documents, generation, handlers, tasks, inbox, shown, disk,
          editorVars, historyVars>>

Texts  == 0..MaxText
Nobody == [uri |-> Manifest, text |-> 0, cfg |-> 0]
Empty  == [text |-> Closed, cfg |-> 0, package |-> NotRun]

Packages == [Docs -> Texts] \cup {NotRun, LoadFailed}

Message == [op : {"open", "change", "close", "fix"}, uri : Docs, body : Seq(Texts)]
Handler == [id : 1..MaxMessages, pc : {"log", "sent"}, uri : Docs, text : Texts, cfg : Texts]
Task    == [gen : 0..MaxMessages, pc : {"sleep", "engine", "merge"}, found : Packages,
            uri : Docs, text : Texts, cfg : Texts]
Shown   == [text : Texts, cfg : Texts, package : Packages] \cup {Empty}

Init ==
    /\ root \in BOOLEAN
    /\ documents = [u \in Docs |-> Closed]
    /\ generation = 0
    /\ handlers = {}
    /\ tasks = {}
    /\ inbox = <<>>
    /\ shown = [u \in Docs |-> Empty]
    /\ editor = [u \in Docs |-> Closed]
    /\ dirty = {}
    /\ disk = [u \in Docs |-> 0]
    /\ texts = 0
    /\ messages = 0
    /\ published = shown
    /\ latest = Nobody
    /\ panicked = {}
    /\ raced = {}
    /\ overwritten = {}
    /\ unread = FALSE
-----------------------------------------------------------------------------
(***************************************************************************)
(* The editor.                                                             *)
(***************************************************************************)
Send(op, u, body) ==
    /\ messages < MaxMessages
    /\ messages' = messages + 1
    /\ inbox' = Append(inbox, [op |-> op, uri |-> u, body |-> body])
    /\ UNCHANGED <<root, documents, generation, handlers, tasks, shown, historyVars>>

Open(u) ==
    /\ editor[u] = Closed
    /\ Send("open", u, <<disk[u]>>)
    /\ editor' = [editor EXCEPT ![u] = disk[u]]
    /\ UNCHANGED <<dirty, disk, texts>>

\* One keystroke, or several in one notification, the last text being current.
Edit(u, n) ==
    /\ editor[u] # Closed
    /\ texts + n <= MaxText
    /\ Send("change", u, [i \in 1..n |-> texts + i])
    /\ texts' = texts + n
    /\ editor' = [editor EXCEPT ![u] = texts + n]
    /\ dirty' = dirty \cup {u}
    /\ UNCHANGED disk

\* The server does nothing on textDocument/didSave.
Save(u) ==
    /\ u \in dirty
    /\ disk' = [disk EXCEPT ![u] = editor[u]]
    /\ dirty' = dirty \ {u}
    /\ unread' = TRUE
    /\ UNCHANGED <<root, documents, generation, handlers, tasks, inbox, shown,
                   editor, texts, messages, published, latest, panicked, raced,
                   overwritten>>

\* A file changed under a clean buffer is loaded again.
Reload(u) ==
    /\ editor[u] \notin {Closed, disk[u]} /\ u \notin dirty
    /\ Send("change", u, <<disk[u]>>)
    /\ editor' = [editor EXCEPT ![u] = disk[u]]
    /\ UNCHANGED <<dirty, disk, texts>>

Close(u) ==
    /\ editor[u] # Closed
    /\ Send("close", u, <<>>)
    /\ editor' = [editor EXCEPT ![u] = Closed]
    /\ dirty' = dirty \ {u}
    /\ UNCHANGED <<disk, texts>>

\* The code action of a package finding: only those carry a fix, and the
\* failure to load the package has none.
RequestFix(u) ==
    /\ editor[u] # Closed
    /\ shown[u].package \notin {NotRun, LoadFailed}
    /\ Send("fix", u, <<>>)
    /\ UNCHANGED <<editor, dirty, disk, texts>>
-----------------------------------------------------------------------------
\* resolve_workspace_config: the open buffer of the manifest, else its file.
Config(store) == IF store[Manifest] # Closed THEN store[Manifest] ELSE disk[Manifest]

(***************************************************************************)
(* A handler puts a text into the store and sends the file-local           *)
(* diagnostics; suspended in the send, it has still to take a generation.  *)
(***************************************************************************)
InsertAndPublish(id, u, text) ==
    LET store == [documents EXCEPT ![u] = text]
        cfg   == Config(store)
        local == [text |-> text, cfg |-> cfg, package |-> NotRun]
    IN  /\ documents' = store
        /\ shown' = [shown EXCEPT ![u] = local]
        /\ published' = [published EXCEPT ![u] = local]
        /\ raced' = raced \ {u}
        /\ handlers' = {h \in handlers : h.id # id} \cup
               {[id |-> id, pc |-> "sent", uri |-> u, text |-> text, cfg |-> cfg]}

\* The number of the message at the head of inbox.
HeadId == messages - Len(inbox) + 1

Receive(op) ==
    /\ inbox # <<>>
    /\ Head(inbox).op = op
    /\ Cardinality(handlers) < Workers
    /\ inbox' = Tail(inbox)

\* Mutant: did_change takes the first of the changes.
DidChangeFirst ==
    /\ Receive("change")
    /\ LET m == Head(inbox) IN
         /\ InsertAndPublish(HeadId, m.uri, Head(m.body))
         /\ overwritten' = overwritten \ {m.uri}
    /\ UNCHANGED <<root, generation, tasks, disk, editorVars, latest, panicked,
                   unread>>

DidChange ==
    /\ Receive("change")
    /\ LET m == Head(inbox) IN
         /\ InsertAndPublish(HeadId, m.uri, m.body[Len(m.body)])
         /\ overwritten' = overwritten \ {m.uri}
    /\ UNCHANGED <<root, generation, tasks, disk, editorVars, latest, panicked,
                   unread>>

DidOpen ==
    /\ Receive("open")
    /\ LET m == Head(inbox) IN
         /\ InsertAndPublish(HeadId, m.uri, m.body[1])
         /\ overwritten' = overwritten \ {m.uri}
    /\ UNCHANGED <<root, generation, tasks, disk, editorVars, latest, panicked,
                   unread>>

\* Nothing is left to do after the send, and no generation is taken.
DidClose ==
    /\ Receive("close")
    /\ LET u == Head(inbox).uri IN
         /\ documents' = [documents EXCEPT ![u] = Closed]
         /\ shown' = [shown EXCEPT ![u] = Empty]
         /\ published' = [published EXCEPT ![u] = Empty]
         /\ raced' = raced \ {u}
         /\ overwritten' = overwritten \ {u}
    /\ UNCHANGED <<root, generation, handlers, tasks, disk, editorVars, latest, panicked,
                   unread>>

(***************************************************************************)
(* execute_command: the fix is written to the file, the log message sent;  *)
(* then the file is read again into the store, whether or not the document *)
(* is open.  A fix that fails or changes nothing only logs.                *)
(***************************************************************************)
ExecuteFix ==
    /\ Receive("fix")
    /\ LET u == Head(inbox).uri IN
         \/ /\ texts < MaxText
            /\ texts' = texts + 1
            /\ disk' = [disk EXCEPT ![u] = texts + 1]
            /\ unread' = TRUE
            /\ handlers' = handlers \cup
                   {[id |-> HeadId, pc |-> "log", uri |-> u, text |-> 0, cfg |-> 0]}
         \/ UNCHANGED <<texts, disk, handlers, unread>>
    /\ UNCHANGED <<root, documents, generation, tasks, shown, editor, dirty, messages,
                   published, latest, panicked, raced, overwritten>>

RefreshAfterFix(h) ==
    /\ h.pc = "log"
    /\ InsertAndPublish(h.id, h.uri, disk[h.uri])
    /\ overwritten' = IF editor[h.uri] = disk[h.uri] THEN overwritten
                      ELSE overwritten \cup {h.uri}
    /\ UNCHANGED <<root, generation, tasks, inbox, disk, editorVars, latest, panicked,
                   unread>>

(***************************************************************************)
(* The rest of publish_diagnostics: take a generation, spawn the run.      *)
(***************************************************************************)
\* The handler sent what the document's newest handler sent.
IsNewest(h, u) ==
    /\ h.pc = "sent" /\ h.uri = u
    /\ published[u] = [text |-> h.text, cfg |-> h.cfg, package |-> NotRun]

Supersede(h, gen) ==
    /\ h.pc = "sent"
    /\ handlers' = handlers \ {h}
    /\ generation' = generation + 1
    /\ latest' = [uri |-> h.uri, text |-> h.text, cfg |-> h.cfg]
    /\ tasks' = IF root
                THEN tasks \cup {[gen |-> gen, pc |-> "sleep", found |-> NotRun,
                                  uri |-> h.uri, text |-> h.text, cfg |-> h.cfg]}
                ELSE tasks
    \* History: a newer message of the document took its generation first.
    /\ raced' = IF \E g \in handlers : IsNewest(g, h.uri) THEN raced ELSE raced \cup {h.uri}
    /\ UNCHANGED <<root, documents, inbox, shown, disk, editorVars, published, panicked,
                   overwritten, unread>>

\* Mutant: the task captures what fetch_add returns.
TakeGenerationBefore(h) == Supersede(h, generation)

\* Mutant: one is added twice, by fetch_add's caller and by the task.
TakeGenerationAhead(h) == Supersede(h, generation + 2)

TakeGeneration(h) == Supersede(h, generation + 1)
-----------------------------------------------------------------------------
(***************************************************************************)
(* The background run: sleep, check, run the engine, check, publish.       *)
(***************************************************************************)
TaskStep(t, S) == tasks' = (tasks \ {t}) \cup S

Wake(t) ==
    /\ t.pc = "sleep"
    /\ TaskStep(t, IF t.gen = generation THEN {[t EXCEPT !.pc = "engine"]} ELSE {})
    /\ UNCHANGED <<root, documents, generation, handlers, inbox, shown, disk, editorVars,
                   historyVars>>

(***************************************************************************)
(* doctor_owned_for_document, on a blocking thread: run_package reads the  *)
(* files from disk, with no look at the store (the task's text only maps   *)
(* positions, its configuration sets severities).  It finds, with one      *)
(* finding for a package that does not load, or it panics.                 *)
(***************************************************************************)
FindingsOf(files) == IF \E u \in Docs : files[u] \in Broken THEN LoadFailed ELSE files

Engine(t) ==
    /\ t.pc = "engine"
    /\ \/ /\ TaskStep(t, {[t EXCEPT !.pc = "merge", !.found = FindingsOf(disk)]})
          /\ UNCHANGED panicked
       \/ /\ Cardinality(panicked) < MaxPanics
          /\ TaskStep(t, {[t EXCEPT !.pc = "merge"]})
          /\ panicked' = panicked \cup {t.gen}
    /\ unread' = IF t.gen = generation THEN FALSE ELSE unread
    /\ UNCHANGED <<root, documents, generation, handlers, inbox, shown, disk, editorVars,
                   published, latest, raced, overwritten>>

\* The task's file-local diagnostics again, with the package findings.
PublishMerged(t) ==
    /\ shown' = [shown EXCEPT ![t.uri] =
                    [text |-> t.text, cfg |-> t.cfg, package |-> t.found]]
    \* History: a newer message is handled, or the document is closed.
    /\ raced' = IF documents[t.uri] = Closed
                   \/ \E h \in handlers : h.uri = t.uri /\ h.pc = "sent"
                THEN raced \cup {t.uri} ELSE raced

\* Mutant: no second look at the generation.
MergeUnchecked(t) ==
    /\ t.pc = "merge"
    /\ TaskStep(t, {})
    /\ PublishMerged(t)
    /\ UNCHANGED <<root, documents, generation, handlers, inbox, disk, editorVars,
                   published, latest, panicked, overwritten, unread>>

Merge(t) ==
    /\ t.pc = "merge"
    /\ TaskStep(t, {})
    /\ IF t.gen = generation THEN PublishMerged(t) ELSE UNCHANGED <<shown, raced>>
    /\ UNCHANGED <<root, documents, generation, handlers, inbox, disk, editorVars,
                   published, latest, panicked, overwritten, unread>>
-----------------------------------------------------------------------------
Client == \E u \in Docs : Open(u) \/ Edit(u, 1) \/ Edit(u, 2) \/ Save(u) \/ Reload(u)
                          \/ Close(u) \/ RequestFix(u)
Dispatch == DidOpen \/ DidChange \/ DidClose \/ ExecuteFix
Resume == \E h \in handlers : RefreshAfterFix(h) \/ TakeGeneration(h)
Background == \E t \in tasks : Wake(t) \/ Engine(t) \/ Merge(t)

Next == Client \/ Dispatch \/ Resume \/ Background

Spec == Init /\ [][Next]_vars

\* The executor polls what is ready, the client reads its pipe, timers fire.
FairSpec == Spec /\ WF_vars(Dispatch) /\ WF_vars(Resume) /\ WF_vars(Background)
-----------------------------------------------------------------------------
TypeOK ==
    /\ root \in BOOLEAN
    /\ documents \in [Docs -> Texts \cup {Closed}]
    /\ generation \in 0..MaxMessages
    /\ handlers \subseteq Handler /\ Cardinality(handlers) <= Workers
    /\ tasks \subseteq Task /\ \A t \in tasks : t.gen <= generation
    /\ inbox \in Seq(Message)
    /\ {shown, published} \subseteq [Docs -> Shown]
    /\ editor \in [Docs -> Texts \cup {Closed}]
    /\ disk \in [Docs -> Texts]
    /\ dirty \cup raced \cup overwritten \subseteq Docs
    /\ texts \in Texts /\ messages \in 0..MaxMessages
    /\ latest \in [uri : Docs, text : Texts, cfg : Texts]
    /\ panicked \subseteq 1..MaxMessages
    /\ unread \in BOOLEAN

\* The file-local diagnostics shown are of what the newest handler was given.
Fresh(u) == shown[u].text = published[u].text /\ shown[u].cfg = published[u].cfg

(***************************************************************************)
(* The two checks of the generation leave exactly these windows: a result  *)
(* is published between the send and the fetch_add of a newer handler of   *)
(* its document, or two handlers take their generations in the wrong       *)
(* order, or the document was closed.  Without one of them no document     *)
(* shows file-local diagnostics of an old text or an old configuration,    *)
(* whatever the other documents, fixes and panics do.                      *)
(***************************************************************************)
StaleOnlyByRace == \A u \in Docs : Fresh(u) \/ u \in raced

(***************************************************************************)
(* backend_p1.rs on doctor_run_generation: "stale results never overwrite  *)
(* fresh ones": a document always shows the file-local diagnostics last    *)
(* sent for it.                                                            *)
(***************************************************************************)
StaleNeverOverwrites == \A u \in Docs : Fresh(u)

(***************************************************************************)
(* Once its messages are handled, the store has the editor's text of a     *)
(* document; only a fix that read the file over unsaved edits, or over a   *)
(* closed document, leaves another one, until the next didChange.          *)
(***************************************************************************)
StoreMirrorsEditor ==
    \A u \in Docs :
        \/ documents[u] = editor[u]
        \/ u \in overwritten
        \/ \E i \in 1..Len(inbox) : inbox[i].uri = u

(***************************************************************************)
(* When the client falls silent, the document of the newest generation     *)
(* gets the diagnostics of its text with the package findings of the files *)
(* on disk, and keeps them: unless the engine panicked, or a file was      *)
(* written after it ran (didSave starts no run).                           *)
(***************************************************************************)
PackageFindingsArrive ==
    <>[](root /\ generation \notin panicked \cup {0} /\ ~unread
            /\ documents[latest.uri] # Closed
           => shown[latest.uri] = [text |-> latest.text, cfg |-> latest.cfg,
                                   package |-> FindingsOf(disk)])
=============================================================================
