------------------------ MODULE LspDiagnosticsProofs ------------------------
(***************************************************************************)
(* Proofs about the language server, for any documents, any number of      *)
(* workers and any number of texts, messages and panics.                   *)
(***************************************************************************)
EXTENDS LspDiagnostics, FiniteSetTheorems, SequenceTheorems, TLAPS

(***************************************************************************)
(* What TypeOK needs besides itself: a message becomes a handler and a     *)
(* handler a generation, so none of the three outnumbers the messages; a   *)
(* handler's id is that of its message; the messages have the bodies the   *)
(* handlers read; only an open document is dirty; generations start at 1.  *)
(***************************************************************************)
CountInv ==
    /\ IsFiniteSet(handlers)
    /\ generation + Cardinality(handlers) + Len(inbox) <= messages

IdInv ==
    /\ \A h \in handlers : h.id + Len(inbox) <= messages
    /\ \A g, h \in handlers : g.id = h.id => g = h

WellFormed(m) ==
    /\ m.op = "open" => Len(m.body) = 1
    /\ m.op = "change" => Len(m.body) >= 1

InboxInv == \A i \in 1..Len(inbox) : WellFormed(inbox[i])

DirtyInv == \A u \in dirty : editor[u] # Closed

TaskInv ==
    \A t \in tasks :
        /\ t.gen >= 1
        /\ t.gen = generation =>
               latest.uri = t.uri /\ latest.text = t.text /\ latest.cfg = t.cfg

BaseInv == CountInv /\ IdInv /\ InboxInv /\ DirtyInv /\ TaskInv

\* The text a message of the editor leaves in the store.
Outcome(m) ==
    CASE m.op = "open"   -> m.body[1]
      [] m.op = "change" -> m.body[Len(m.body)]
      [] OTHER           -> Closed

LEMMA ConstantTypes ==
    /\ Manifest \in Docs
    /\ MaxText \in Nat /\ MaxMessages \in Nat /\ Workers \in Nat \ {0}
    /\ Closed \notin Texts
    /\ 0 \in Texts
    /\ Texts \subseteq Nat
    BY LspAssumption DEF Texts

\* What the engine may have found is a value of its own kind.
LEMMA PackageValues ==
    /\ NotRun \in Packages
    /\ \A d \in [Docs -> Texts] : FindingsOf(d) \in Packages
    BY DEF Packages, FindingsOf
-----------------------------------------------------------------------------
(***************************************************************************)
(* The client, as one kind of step: it appends a message and leaves its    *)
(* editor with the text of that message, or it saves.                      *)
(***************************************************************************)
ClientFrame == UNCHANGED <<root, documents, generation, handlers, tasks, shown, published,
                           latest, panicked, raced, overwritten>>

Sends(m) ==
    /\ m \in Message /\ WellFormed(m)
    /\ inbox' = Append(inbox, m)
    /\ messages' = messages + 1 /\ messages < MaxMessages
    /\ editor' = IF m.op = "fix" THEN editor ELSE [editor EXCEPT ![m.uri] = Outcome(m)]

LEMMA MessageParts ==
    ASSUME NEW op \in {"open", "change", "close", "fix"}, NEW u \in Docs, NEW body \in Seq(Texts)
    PROVE  LET m == [op |-> op, uri |-> u, body |-> body] IN
           m \in Message /\ m.op = op /\ m.uri = u /\ m.body = body
    BY DEF Message

LEMMA ClientEffect ==
    ASSUME TypeOK, BaseInv, Client
    PROVE  /\ ClientFrame
           /\ (\E m : Sends(m)) \/ UNCHANGED <<inbox, messages, editor>>
           /\ texts' \in Texts
           /\ disk' \in [Docs -> Texts]
           /\ dirty' \subseteq Docs
           /\ DirtyInv'
<1> DEFINE M(op, u, body) == [op |-> op, uri |-> u, body |-> body]
<1>0. /\ texts \in Texts /\ texts \in Nat /\ disk \in [Docs -> Texts] /\ dirty \subseteq Docs
      /\ editor \in [Docs -> Texts \cup {Closed}] /\ MaxText \in Nat
    BY ConstantTypes DEF TypeOK
<1>1. ASSUME NEW u \in Docs, Open(u)
      PROVE  /\ ClientFrame /\ \E m : Sends(m)
             /\ texts' \in Texts /\ disk' \in [Docs -> Texts] /\ dirty' \subseteq Docs
             /\ DirtyInv'
  <2> DEFINE m == M("open", u, <<disk[u]>>)
  <2>1. /\ <<disk[u]>> \in Seq(Texts) /\ Len(<<disk[u]>>) = 1 /\ <<disk[u]>>[1] = disk[u]
      BY <1>0
  <2>2. m \in Message /\ m.op = "open" /\ m.uri = u /\ m.body = <<disk[u]>>
      BY <2>1, MessageParts
  <2>3. WellFormed(m) /\ Outcome(m) = disk[u]
      BY <2>1, <2>2 DEF WellFormed, Outcome
  <2>4. Sends(m)
    <3>1. /\ inbox' = Append(inbox, m) /\ messages' = messages + 1 /\ messages < MaxMessages
          /\ editor' = [editor EXCEPT ![u] = disk[u]]
        BY <1>1 DEF Open, Send
    <3> HIDE DEF m
    <3>2. QED
        BY <2>2, <2>3, <3>1 DEF Sends
  <2>5. ClientFrame /\ UNCHANGED <<texts, disk, dirty>>
      BY <1>1 DEF Open, Send, ClientFrame, historyVars
  <2>6. DirtyInv'
      BY <1>0, <1>1, <2>5, ConstantTypes DEF Open, DirtyInv, BaseInv
  <2>7. QED
      BY <1>0, <2>4, <2>5, <2>6
<1>2. ASSUME NEW u \in Docs, NEW n \in {1, 2}, Edit(u, n)
      PROVE  /\ ClientFrame /\ \E m : Sends(m)
             /\ texts' \in Texts /\ disk' \in [Docs -> Texts] /\ dirty' \subseteq Docs
             /\ DirtyInv'
  <2> DEFINE s == [i \in 1..n |-> texts + i]
             m == M("change", u, s)
  <2>1. texts + n \in Texts /\ texts + n # Closed
      BY <1>0, <1>2, ConstantTypes DEF Edit, Texts
  <2>2. /\ s \in Seq(Texts) /\ Len(s) = n /\ s[Len(s)] = texts + n
    <3>1. \A i \in 1..n : texts + i \in Texts
        BY <1>0, <1>2 DEF Edit, Texts
    <3>2. s \in [1..n -> Texts]
        BY <3>1
    <3>3. s[n] = texts + n
        OBVIOUS
    <3> HIDE DEF s
    <3>4. s \in Seq(Texts) /\ Len(s) = n
        BY <3>2
    <3>5. QED
        BY <3>3, <3>4
  <2> HIDE DEF s
  <2>3. m \in Message /\ m.op = "change" /\ m.uri = u /\ m.body = s
      BY <2>2, MessageParts
  <2>4. WellFormed(m) /\ Outcome(m) = texts + n
    <3> HIDE DEF m
    <3>1. QED
        BY <2>2, <2>3 DEF WellFormed, Outcome
  <2>5. Sends(m)
    <3>1. /\ inbox' = Append(inbox, m) /\ messages' = messages + 1 /\ messages < MaxMessages
          /\ editor' = [editor EXCEPT ![u] = texts + n]
        BY <1>2 DEF Edit, Send, s
    <3> HIDE DEF m
    <3>2. QED
        BY <2>3, <2>4, <3>1 DEF Sends
  <2>6. ClientFrame /\ disk' = disk /\ texts' = texts + n /\ dirty' = dirty \cup {u}
      BY <1>2 DEF Edit, Send, ClientFrame, historyVars
  <2>7. DirtyInv'
    <3>1. \A x \in Docs : editor'[x] = IF x = u THEN texts + n ELSE editor[x]
        BY <1>0, <1>2 DEF Edit
    <3>2. QED
        BY <1>0, <2>1, <2>6, <3>1 DEF DirtyInv, BaseInv
  <2>8. QED
      BY <1>0, <2>1, <2>5, <2>6, <2>7
<1>3. ASSUME NEW u \in Docs, Reload(u)
      PROVE  /\ ClientFrame /\ \E m : Sends(m)
             /\ texts' \in Texts /\ disk' \in [Docs -> Texts] /\ dirty' \subseteq Docs
             /\ DirtyInv'
  <2> DEFINE m == M("change", u, <<disk[u]>>)
  <2>1. /\ <<disk[u]>> \in Seq(Texts) /\ Len(<<disk[u]>>) = 1 /\ <<disk[u]>>[1] = disk[u]
      BY <1>0
  <2>2. m \in Message /\ m.op = "change" /\ m.uri = u /\ m.body = <<disk[u]>>
      BY <2>1, MessageParts
  <2>3. WellFormed(m) /\ Outcome(m) = disk[u]
      BY <2>1, <2>2 DEF WellFormed, Outcome
  <2>4. Sends(m)
    <3>1. /\ inbox' = Append(inbox, m) /\ messages' = messages + 1 /\ messages < MaxMessages
          /\ editor' = [editor EXCEPT ![u] = disk[u]]
        BY <1>3 DEF Reload, Send
    <3> HIDE DEF m
    <3>2. QED
        BY <2>2, <2>3, <3>1 DEF Sends
  <2>5. ClientFrame /\ UNCHANGED <<texts, disk, dirty>>
      BY <1>3 DEF Reload, Send, ClientFrame, historyVars
  <2>6. DirtyInv'
      BY <1>0, <1>3, <2>5, ConstantTypes DEF Reload, DirtyInv, BaseInv
  <2>7. QED
      BY <1>0, <2>4, <2>5, <2>6
<1>4. ASSUME NEW u \in Docs, Close(u)
      PROVE  /\ ClientFrame /\ \E m : Sends(m)
             /\ texts' \in Texts /\ disk' \in [Docs -> Texts] /\ dirty' \subseteq Docs
             /\ DirtyInv'
  <2> DEFINE m == M("close", u, <<>>)
  <2>1. m \in Message /\ m.op = "close" /\ m.uri = u
      BY EmptySeq, MessageParts
  <2>2. WellFormed(m) /\ Outcome(m) = Closed
      BY <2>1 DEF WellFormed, Outcome
  <2>3. Sends(m)
    <3>1. /\ inbox' = Append(inbox, m) /\ messages' = messages + 1 /\ messages < MaxMessages
          /\ editor' = [editor EXCEPT ![u] = Closed]
        BY <1>4 DEF Close, Send
    <3> HIDE DEF m
    <3>2. QED
        BY <2>1, <2>2, <3>1 DEF Sends
  <2>4. ClientFrame /\ UNCHANGED <<texts, disk>> /\ dirty' = dirty \ {u}
      BY <1>4 DEF Close, Send, ClientFrame, historyVars
  <2>5. DirtyInv'
      BY <1>0, <1>4, <2>4 DEF Close, DirtyInv, BaseInv
  <2>6. QED
      BY <1>0, <2>3, <2>4, <2>5
<1>5. ASSUME NEW u \in Docs, RequestFix(u)
      PROVE  /\ ClientFrame /\ \E m : Sends(m)
             /\ texts' \in Texts /\ disk' \in [Docs -> Texts] /\ dirty' \subseteq Docs
             /\ DirtyInv'
  <2> DEFINE m == M("fix", u, <<>>)
  <2>1. m \in Message /\ m.op = "fix" /\ m.uri = u
      BY EmptySeq, MessageParts
  <2>2. WellFormed(m)
      BY <2>1 DEF WellFormed
  <2>3. Sends(m)
    <3>1. /\ inbox' = Append(inbox, m) /\ messages' = messages + 1 /\ messages < MaxMessages
          /\ editor' = editor
        BY <1>5 DEF RequestFix, Send
    <3> HIDE DEF m
    <3>2. QED
        BY <2>1, <2>2, <3>1 DEF Sends
  <2>4. ClientFrame /\ UNCHANGED <<texts, disk, dirty, editor>>
      BY <1>5 DEF RequestFix, Send, ClientFrame, historyVars
  <2>5. QED
      BY <1>0, <2>3, <2>4 DEF DirtyInv, BaseInv
<1>6. ASSUME NEW u \in Docs, Save(u)
      PROVE  /\ ClientFrame /\ UNCHANGED <<inbox, messages, editor>>
             /\ texts' \in Texts /\ disk' \in [Docs -> Texts] /\ dirty' \subseteq Docs
             /\ DirtyInv'
  <2>1. /\ ClientFrame /\ UNCHANGED <<inbox, messages, editor, texts>>
        /\ disk' = [disk EXCEPT ![u] = editor[u]] /\ dirty' = dirty \ {u} /\ u \in dirty
      BY <1>6 DEF Save, ClientFrame, historyVars
  <2>2. editor[u] \in Texts
      BY <1>0, <2>1 DEF DirtyInv, BaseInv
  <2>3. QED
      BY <1>0, <2>1, <2>2 DEF DirtyInv, BaseInv
<1>7. QED
    BY <1>1, <1>2, <1>3, <1>4, <1>5, <1>6 DEF Client
-----------------------------------------------------------------------------
(***************************************************************************)
(* The server's handlers.                                                  *)
(***************************************************************************)
\* The record a handler leaves while it is suspended in its send.
Sent(id, u, text, cfg) == [id |-> id, pc |-> "sent", uri |-> u, text |-> text, cfg |-> cfg]

LEMMA SentParts ==
    ASSUME NEW id \in 1..MaxMessages, NEW u \in Docs, NEW text \in Texts, NEW cfg \in Texts
    PROVE  LET h == Sent(id, u, text, cfg) IN
           /\ h \in Handler
           /\ h.id = id /\ h.pc = "sent" /\ h.uri = u /\ h.text = text /\ h.cfg = cfg
    BY DEF Sent, Handler

Inserted(id, u, text, cfg) ==
    LET local == [text |-> text, cfg |-> cfg, package |-> NotRun] IN
    /\ documents' = [documents EXCEPT ![u] = text]
    /\ documents' \in [Docs -> Texts \cup {Closed}]
    /\ local.text = text /\ local.cfg = cfg /\ local \in Shown
    /\ shown' = [shown EXCEPT ![u] = local]
    /\ published' = [published EXCEPT ![u] = local]
    /\ {shown', published'} \subseteq [Docs -> Shown]
    /\ raced' = raced \ {u}
    /\ handlers' = {h \in handlers : h.id # id} \cup {Sent(id, u, text, cfg)}
    /\ handlers' \subseteq Handler

LEMMA InsertEffect ==
    ASSUME TypeOK, NEW id \in 1..MaxMessages, NEW u \in Docs, NEW text \in Texts,
           InsertAndPublish(id, u, text)
    PROVE  \E cfg \in Texts : Inserted(id, u, text, cfg)
<1> DEFINE store == [documents EXCEPT ![u] = text]
           cfg == Config(store)
           local == [text |-> text, cfg |-> cfg, package |-> NotRun]
<1>1. store \in [Docs -> Texts \cup {Closed}]
    BY DEF TypeOK
<1>2. cfg \in Texts
  <2> HIDE DEF store
  <2>1. QED
      BY <1>1, ConstantTypes DEF Config, TypeOK
<1>3. /\ documents' = store /\ shown' = [shown EXCEPT ![u] = local]
      /\ published' = [published EXCEPT ![u] = local] /\ raced' = raced \ {u}
      /\ handlers' = {h \in handlers : h.id # id} \cup {Sent(id, u, text, cfg)}
    BY DEF InsertAndPublish, Sent
<1> HIDE DEF store, cfg
<1>4. local \in Shown /\ local.text = text /\ local.cfg = cfg
    BY <1>2, PackageValues DEF Shown
<1> HIDE DEF local
<1>5. {shown', published'} \subseteq [Docs -> Shown]
  <2> HIDE DEF Shown
  <2>1. QED
      BY <1>3, <1>4 DEF TypeOK
<1>6. handlers' \subseteq Handler
  <2>1. Sent(id, u, text, cfg) \in Handler
      BY <1>2, SentParts
  <2> HIDE DEF Handler, Sent
  <2>2. QED
      BY <1>3, <2>1 DEF TypeOK
<1>7. Inserted(id, u, text, cfg)
    BY <1>1, <1>3, <1>4, <1>5, <1>6 DEF Inserted, store, local
<1>8. QED
    BY <1>2, <1>7

(***************************************************************************)
(* The message at the head, and the id its handler gets.                   *)
(***************************************************************************)
LEMMA HeadMessage ==
    ASSUME TypeOK, BaseInv, NEW op, Receive(op)
    PROVE  /\ Head(inbox) \in Message /\ WellFormed(Head(inbox)) /\ Head(inbox).op = op
           /\ Head(inbox) = inbox[1]
           /\ Head(inbox).uri \in Docs /\ Head(inbox).body \in Seq(Texts)
           /\ inbox' = Tail(inbox) /\ inbox' \in Seq(Message)
           /\ Len(inbox) \in Nat \ {0} /\ Len(inbox') = Len(inbox) - 1
           /\ \A i \in 1..Len(inbox') : inbox'[i] = inbox[i + 1]
           /\ HeadId \in 1..MaxMessages
           /\ HeadId + Len(inbox') <= messages
           /\ \A h \in handlers : h.id < HeadId
           /\ InboxInv'
<1>1. inbox # <<>> /\ inbox \in Seq(Message) /\ inbox' = Tail(inbox) /\ Head(inbox).op = op
    BY DEF Receive, TypeOK
<1>2. Len(inbox) \in Nat \ {0}
    BY <1>1, EmptySeq
<1>3. Head(inbox) = inbox[1] /\ 1 \in 1..Len(inbox)
    BY <1>1, <1>2
<1>4. /\ inbox' \in Seq(Message) /\ Len(inbox') = Len(inbox) - 1
      /\ \A i \in 1..Len(inbox') : inbox'[i] = inbox[i + 1]
  <2> HIDE DEF Message
  <2>1. QED
      BY <1>1, <1>2
<1>5. Head(inbox) \in Message /\ WellFormed(Head(inbox))
  <2> HIDE DEF Message, WellFormed
  <2>1. QED
      BY <1>1, <1>2, <1>3 DEF BaseInv, InboxInv
<1>6. Head(inbox).uri \in Docs /\ Head(inbox).body \in Seq(Texts)
    BY <1>5 DEF Message
<1>7. InboxInv'
  <2> SUFFICES ASSUME NEW i \in 1..Len(inbox') PROVE WellFormed(inbox'[i])
      BY DEF InboxInv, WellFormed
  <2>1. i + 1 \in 1..Len(inbox) /\ inbox'[i] = inbox[i + 1]
      BY <1>2, <1>4
  <2>2. QED
    <3> HIDE DEF WellFormed
    <3>1. QED
        BY <2>1 DEF BaseInv, InboxInv
<1>8. /\ messages \in Nat /\ messages <= MaxMessages /\ MaxMessages \in Nat
      /\ generation \in Nat /\ Cardinality(handlers) \in Nat
  <2>1. Cardinality(handlers) \in Nat
      BY FS_CardinalityType DEF BaseInv, CountInv
  <2>2. QED
      BY <2>1, ConstantTypes DEF TypeOK
<1>9. Len(inbox) <= messages
    BY <1>2, <1>8 DEF BaseInv, CountInv
<1>10. HeadId \in 1..MaxMessages /\ HeadId + Len(inbox') <= messages
    BY <1>2, <1>4, <1>8, <1>9 DEF HeadId
<1>11. ASSUME NEW h \in handlers PROVE h.id < HeadId
  <2>1. h.id + Len(inbox) <= messages
      BY DEF BaseInv, IdInv
  <2>2. h.id \in Nat
      BY <1>8 DEF TypeOK, Handler
  <2>3. QED
      BY <1>2, <1>8, <2>1, <2>2 DEF HeadId
<1>12. QED
    BY <1>1, <1>2, <1>3, <1>4, <1>5, <1>6, <1>7, <1>10, <1>11

\* didOpen and didChange as one: the text of the message goes in.
DidInsert ==
    /\ \E op \in {"open", "change"} : Receive(op)
    /\ InsertAndPublish(HeadId, Head(inbox).uri, Outcome(Head(inbox)))
    /\ overwritten' = overwritten \ {Head(inbox).uri}
    /\ UNCHANGED <<root, generation, tasks, disk, editorVars, latest, panicked, unread>>

LEMMA DispatchIs ==
    ASSUME Dispatch
    PROVE  DidInsert \/ DidClose \/ ExecuteFix
<1>1. CASE DidOpen
    BY <1>1 DEF DidOpen, DidInsert, Receive, Outcome
<1>2. CASE DidChange
    BY <1>2 DEF DidChange, DidInsert, Receive, Outcome
<1>3. QED
    BY <1>1, <1>2 DEF Dispatch

LEMMA InsertedText ==
    ASSUME TypeOK, BaseInv, DidInsert
    PROVE  Outcome(Head(inbox)) \in Texts
<1>1. PICK op \in {"open", "change"} : Receive(op)
    BY DEF DidInsert
<1> DEFINE m == Head(inbox)
<1>2. m.op = op /\ WellFormed(m) /\ m.body \in Seq(Texts)
    BY <1>1, HeadMessage
<1> SUFFICES Outcome(m) \in Texts
    OBVIOUS
<1> HIDE DEF m
<1>3. Len(m.body) \in Nat
    BY <1>2
<1>4. CASE op = "open"
  <2>1. Len(m.body) = 1 /\ Outcome(m) = m.body[1]
      BY <1>2, <1>4 DEF WellFormed, Outcome
  <2>2. QED
      BY <1>2, <2>1
<1>5. CASE op = "change"
  <2>1. Len(m.body) >= 1 /\ Outcome(m) = m.body[Len(m.body)]
      BY <1>2, <1>5 DEF WellFormed, Outcome
  <2>2. QED
      BY <1>2, <1>3, <2>1
<1>6. QED
    BY <1>4, <1>5

(***************************************************************************)
(* The handlers after an insertion: one more at most, and as many where a  *)
(* suspended one goes on.                                                  *)
(***************************************************************************)
LEMMA HandlersCount ==
    ASSUME IsFiniteSet(handlers), NEW id, NEW x,
           handlers' = {h \in handlers : h.id # id} \cup {x}
    PROVE  /\ IsFiniteSet(handlers')
           /\ Cardinality(handlers) \in Nat /\ Cardinality(handlers') \in Nat
           /\ Cardinality(handlers') <= Cardinality(handlers) + 1
           /\ (\E h \in handlers : h.id = id) => Cardinality(handlers') <= Cardinality(handlers)
<1> DEFINE S == {h \in handlers : h.id # id}
<1>1. S \in SUBSET handlers
    OBVIOUS
<1>2. /\ IsFiniteSet(S) /\ Cardinality(S) <= Cardinality(handlers)
      /\ Cardinality(handlers) = Cardinality(S) => handlers = S
  <2> HIDE DEF S
  <2>1. QED
      BY <1>1, FS_Subset
<1>3. (\E h \in handlers : h.id = id) => handlers # S
    OBVIOUS
<1> DEFINE T == S \cup {x}
<1>4. handlers' = T
    OBVIOUS
<1> HIDE DEF S
<1>5. /\ IsFiniteSet(S \cup {x})
      /\ Cardinality(S \cup {x}) = IF x \in S THEN Cardinality(S) ELSE Cardinality(S) + 1
    BY <1>2, FS_AddElement
<1>6. /\ Cardinality(S) \in Nat /\ Cardinality(handlers) \in Nat
      /\ IsFiniteSet(T) /\ Cardinality(T) \in Nat
      /\ Cardinality(T) <= Cardinality(S) + 1
    BY <1>2, <1>5, FS_CardinalityType
<1> HIDE DEF T
<1>7. QED
    BY ONLY <1>2, <1>3, <1>4, <1>6

\* Ids stay distinct: the new handler takes the place of the one with its id.
LEMMA HandlersIds ==
    ASSUME NEW id, NEW x, x.id = id,
           \A g, h \in handlers : g.id = h.id => g = h,
           handlers' = {h \in handlers : h.id # id} \cup {x}
    PROVE  \A g, h \in handlers' : g.id = h.id => g = h
    OBVIOUS

ServerTypes ==
    /\ messages \in Nat /\ messages <= MaxMessages /\ MaxMessages \in Nat
    /\ generation \in Nat /\ Cardinality(handlers) \in Nat /\ Workers \in Nat
    /\ Len(inbox) \in Nat

LEMMA ServerTypesHold ==
    ASSUME TypeOK, BaseInv
    PROVE  ServerTypes
<1>1. Cardinality(handlers) \in Nat
    BY FS_CardinalityType DEF BaseInv, CountInv
<1>2. QED
    BY <1>1, ConstantTypes DEF TypeOK, ServerTypes

LEMMA InsertBase ==
    ASSUME TypeOK, BaseInv, DidInsert
    PROVE  TypeOK' /\ BaseInv'
<1> DEFINE u == Head(inbox).uri
           text == Outcome(Head(inbox))
<1>1. PICK op \in {"open", "change"} : Receive(op)
    BY DEF DidInsert
<1>2. /\ u \in Docs /\ inbox' \in Seq(Message) /\ Len(inbox') = Len(inbox) - 1
      /\ HeadId \in 1..MaxMessages /\ HeadId + Len(inbox') <= messages
      /\ Len(inbox) \in Nat \ {0} /\ InboxInv'
    BY <1>1, HeadMessage
<1>3. text \in Texts
    BY InsertedText
<1>4. /\ InsertAndPublish(HeadId, u, text) /\ overwritten' = overwritten \ {u}
      /\ UNCHANGED <<root, generation, tasks, disk, editor, dirty, texts, messages, latest,
                     panicked, unread>>
    BY DEF DidInsert, editorVars
<1> HIDE DEF u, text
<1>0. PICK cfg \in Texts : Inserted(HeadId, u, text, cfg)
    BY <1>2, <1>3, <1>4, InsertEffect
<1>5. /\ documents' \in [Docs -> Texts \cup {Closed}]
      /\ {shown', published'} \subseteq [Docs -> Shown]
      /\ raced' = raced \ {u}
      /\ handlers' = {h \in handlers : h.id # HeadId} \cup {Sent(HeadId, u, text, cfg)}
      /\ handlers' \subseteq Handler
    BY <1>0 DEF Inserted
<1>6. ServerTypes
    BY ServerTypesHold
<1>7. /\ IsFiniteSet(handlers') /\ Cardinality(handlers') \in Nat
      /\ Cardinality(handlers') <= Cardinality(handlers) + 1
  <2>1. IsFiniteSet(handlers)
      BY DEF BaseInv, CountInv
  <2> HIDE DEF Sent
  <2>2. QED
      BY <1>5, <2>1, HandlersCount
<1>8. Cardinality(handlers') <= Workers
    BY <1>1, <1>6, <1>7 DEF Receive, ServerTypes
<1>9. TypeOK'
  <2> HIDE DEF Handler, Task, Message, Shown
  <2>1. QED
      BY <1>2, <1>4, <1>5, <1>8 DEF TypeOK
<1>10. CountInv'
    BY <1>2, <1>4, <1>6, <1>7 DEF CountInv, BaseInv, ServerTypes
<1>11. IdInv'
  <2>1. Sent(HeadId, u, text, cfg).id = HeadId
      BY DEF Sent
  <2>2. \A g, h \in handlers' : g.id = h.id => g = h
    <3> HIDE DEF Sent
    <3>1. QED
        BY <1>5, <2>1, HandlersIds DEF BaseInv, IdInv
  <2>3. ASSUME NEW h \in handlers' PROVE h.id + Len(inbox') <= messages'
    <3>1. CASE h = Sent(HeadId, u, text, cfg)
        BY <1>2, <1>4, <2>1, <3>1
    <3>2. CASE h \in handlers
      <4>1. h.id \in Nat /\ h.id + Len(inbox) <= messages
          BY <3>2, <1>6 DEF BaseInv, IdInv, TypeOK, Handler, ServerTypes
      <4>2. QED
          BY <1>2, <1>4, <1>6, <4>1 DEF ServerTypes
    <3>3. QED
        BY <1>5, <3>1, <3>2
  <2>4. QED
      BY <2>2, <2>3 DEF IdInv
<1>12. DirtyInv' /\ TaskInv'
    BY <1>4 DEF BaseInv, DirtyInv, TaskInv
<1>13. QED
    BY <1>2, <1>9, <1>10, <1>11, <1>12 DEF BaseInv

LEMMA CloseBase ==
    ASSUME TypeOK, BaseInv, DidClose
    PROVE  TypeOK' /\ BaseInv'
<1> DEFINE u == Head(inbox).uri
<1>1. Receive("close")
    BY DEF DidClose
<1>2. /\ u \in Docs /\ inbox' \in Seq(Message) /\ Len(inbox') = Len(inbox) - 1
      /\ Len(inbox) \in Nat \ {0} /\ InboxInv'
    BY <1>1, HeadMessage
<1>3. /\ documents' = [documents EXCEPT ![u] = Closed]
      /\ shown' = [shown EXCEPT ![u] = Empty]
      /\ published' = [published EXCEPT ![u] = Empty]
      /\ raced' = raced \ {u} /\ overwritten' = overwritten \ {u}
      /\ UNCHANGED <<root, generation, handlers, tasks, disk, editor, dirty, texts, messages,
                     latest, panicked, unread>>
    BY DEF DidClose, editorVars
<1> HIDE DEF u
<1>4. {shown', published'} \subseteq [Docs -> Shown]
  <2>1. Empty \in Shown
      BY PackageValues DEF Shown
  <2> HIDE DEF Shown, Empty
  <2>2. QED
      BY <1>3, <2>1 DEF TypeOK
<1>5. documents' \in [Docs -> Texts \cup {Closed}]
    BY <1>3 DEF TypeOK
<1>6. TypeOK'
  <2> HIDE DEF Handler, Task, Message, Shown
  <2>1. QED
      BY <1>2, <1>3, <1>4, <1>5 DEF TypeOK
<1>7. ServerTypes
    BY ServerTypesHold
<1>8. CountInv'
    BY <1>2, <1>3, <1>7 DEF BaseInv, CountInv, ServerTypes
<1>9. IdInv'
  <2>1. \A h \in handlers : h.id \in Nat
      BY <1>7 DEF TypeOK, Handler, ServerTypes
  <2>2. QED
      BY <1>2, <1>3, <1>7, <2>1 DEF BaseInv, IdInv, ServerTypes
<1>10. QED
    BY <1>2, <1>3, <1>6, <1>8, <1>9 DEF BaseInv, DirtyInv, TaskInv

LEMMA FixBase ==
    ASSUME TypeOK, BaseInv, ExecuteFix
    PROVE  TypeOK' /\ BaseInv'
<1> DEFINE u == Head(inbox).uri
           x == [id |-> HeadId, pc |-> "log", uri |-> u, text |-> 0, cfg |-> 0]
<1>1. Receive("fix")
    BY DEF ExecuteFix
<1>2. /\ u \in Docs /\ inbox' \in Seq(Message) /\ Len(inbox') = Len(inbox) - 1
      /\ Len(inbox) \in Nat \ {0} /\ InboxInv'
      /\ HeadId \in 1..MaxMessages /\ HeadId + Len(inbox') <= messages
      /\ \A h \in handlers : h.id < HeadId
    BY <1>1, HeadMessage
<1>3. /\ UNCHANGED <<root, documents, generation, tasks, shown, editor, dirty, messages,
                     published, latest, panicked, raced, overwritten>>
      /\ \/ /\ texts < MaxText /\ texts' = texts + 1
            /\ disk' = [disk EXCEPT ![u] = texts + 1]
            /\ handlers' = handlers \cup {x}
         \/ UNCHANGED <<texts, disk, handlers>>
    BY DEF ExecuteFix, historyVars
<1> HIDE DEF u
<1>4. x \in Handler /\ x.id = HeadId
    BY <1>2, ConstantTypes DEF Handler
<1> HIDE DEF x
<1>5. texts' \in Texts /\ disk' \in [Docs -> Texts] /\ handlers' \subseteq Handler
  <2>1. texts < MaxText => texts + 1 \in Texts
      BY ConstantTypes DEF TypeOK, Texts
  <2> HIDE DEF Handler
  <2>2. QED
      BY <1>3, <1>4, <2>1 DEF TypeOK
<1>6. ServerTypes /\ IsFiniteSet(handlers)
    BY ServerTypesHold DEF BaseInv, CountInv
<1>7. /\ IsFiniteSet(handlers') /\ Cardinality(handlers') \in Nat
      /\ Cardinality(handlers') <= Cardinality(handlers) + 1
  <2> DEFINE T == handlers \cup {x}
  <2>1. IsFiniteSet(T) /\ Cardinality(T) \in Nat /\ Cardinality(T) <= Cardinality(handlers) + 1
    <3>1. /\ IsFiniteSet(T)
          /\ Cardinality(T)
              = IF x \in handlers THEN Cardinality(handlers) ELSE Cardinality(handlers) + 1
        BY <1>6, FS_AddElement
    <3> HIDE DEF T
    <3>2. QED
        BY <1>6, <3>1 DEF ServerTypes
  <2>2. handlers' = T \/ handlers' = handlers
      BY <1>3
  <2> HIDE DEF T
  <2>3. QED
      BY <1>6, <2>1, <2>2 DEF ServerTypes
<1>8. Cardinality(handlers') <= Workers
    BY <1>1, <1>6, <1>7 DEF Receive, ServerTypes
<1>9. TypeOK'
  <2>1. unread' \in BOOLEAN
      BY DEF ExecuteFix, TypeOK
  <2> HIDE DEF Handler, Task, Message, Shown
  <2>2. QED
      BY <1>2, <1>3, <1>5, <1>8, <2>1 DEF TypeOK
<1>10. CountInv'
    BY <1>2, <1>3, <1>6, <1>7 DEF BaseInv, CountInv, ServerTypes
<1>11. IdInv'
  <2>1. \A h \in handlers : h.id \in Nat
      BY <1>6 DEF TypeOK, Handler, ServerTypes
  <2>2. handlers' \subseteq handlers \cup {x}
      BY <1>3
  <2>3. \A h \in handlers' : h.id + Len(inbox') <= messages'
      BY <1>2, <1>3, <1>4, <1>6, <2>1, <2>2 DEF BaseInv, IdInv, ServerTypes
  <2>4. \A g, h \in handlers' : g.id = h.id => g = h
    <3>1. HeadId \in Nat
        BY <1>2, <1>6 DEF ServerTypes
    <3>2. \A h \in handlers : h.id # HeadId
        BY <1>2, <2>1, <3>1
    <3>3. QED
        BY <1>4, <2>2, <3>2 DEF BaseInv, IdInv
  <2>5. QED
      BY <2>3, <2>4 DEF IdInv
<1>12. QED
    BY <1>2, <1>3, <1>9, <1>10, <1>11 DEF BaseInv, DirtyInv, TaskInv

LEMMA HandlerParts ==
    ASSUME TypeOK, BaseInv, NEW h \in handlers
    PROVE  /\ h.id \in 1..MaxMessages /\ h.uri \in Docs /\ h.text \in Texts /\ h.cfg \in Texts
           /\ h.id \in Nat
    BY ConstantTypes DEF TypeOK, Handler

LEMMA RefreshBase ==
    ASSUME TypeOK, BaseInv, NEW h \in handlers, RefreshAfterFix(h)
    PROVE  TypeOK' /\ BaseInv'
<1> DEFINE id == h.id
           u == h.uri
           text == disk[u]
<1>1. id \in 1..MaxMessages /\ u \in Docs
    BY HandlerParts
<1>2. text \in Texts
    BY <1>1 DEF TypeOK
<1>3. /\ InsertAndPublish(id, u, text) /\ overwritten' \subseteq overwritten \cup {u}
      /\ UNCHANGED <<root, generation, tasks, inbox, disk, editor, dirty, texts, messages,
                     latest, panicked, unread>>
    BY DEF RefreshAfterFix, editorVars
<1>4. \E g \in handlers : g.id = id
    OBVIOUS
<1> HIDE DEF id, u, text
<1>0. PICK cfg \in Texts : Inserted(id, u, text, cfg)
    BY <1>1, <1>2, <1>3, InsertEffect
<1>5. /\ documents' \in [Docs -> Texts \cup {Closed}]
      /\ {shown', published'} \subseteq [Docs -> Shown]
      /\ raced' = raced \ {u}
      /\ handlers' = {g \in handlers : g.id # id} \cup {Sent(id, u, text, cfg)}
      /\ handlers' \subseteq Handler
    BY <1>0 DEF Inserted
<1>6. ServerTypes
    BY ServerTypesHold
<1>7. /\ IsFiniteSet(handlers') /\ Cardinality(handlers') \in Nat
      /\ Cardinality(handlers') <= Cardinality(handlers)
  <2>1. IsFiniteSet(handlers)
      BY DEF BaseInv, CountInv
  <2> HIDE DEF Sent
  <2>2. QED
      BY <1>4, <1>5, <2>1, HandlersCount
<1>8. Cardinality(handlers') <= Workers
    BY <1>6, <1>7 DEF TypeOK, ServerTypes
<1>9. TypeOK'
  <2> HIDE DEF Handler, Task, Message, Shown
  <2>1. QED
      BY <1>1, <1>3, <1>5, <1>8 DEF TypeOK
<1>10. CountInv'
    BY <1>3, <1>6, <1>7 DEF CountInv, BaseInv, ServerTypes
<1>11. IdInv'
  <2>1. Sent(id, u, text, cfg).id = id
      BY DEF Sent
  <2>2. \A g, k \in handlers' : g.id = k.id => g = k
    <3> HIDE DEF Sent
    <3>1. QED
        BY <1>5, <2>1, HandlersIds DEF BaseInv, IdInv
  <2>3. \A g \in handlers' : \E k \in handlers : k.id = g.id
    <3> HIDE DEF Sent
    <3>1. QED
        BY <1>4, <1>5, <2>1
  <2>4. \A g \in handlers' : g.id + Len(inbox') <= messages'
      BY <1>3, <2>3 DEF BaseInv, IdInv
  <2>5. QED
      BY <2>2, <2>4 DEF IdInv
<1>12. QED
    BY <1>3, <1>9, <1>10, <1>11 DEF BaseInv, InboxInv, DirtyInv, TaskInv

LEMMA TakeBase ==
    ASSUME TypeOK, BaseInv, NEW h \in handlers, TakeGeneration(h)
    PROVE  TypeOK' /\ BaseInv'
<1> DEFINE gen == generation + 1
           t == [gen |-> gen, pc |-> "sleep", found |-> NotRun,
                 uri |-> h.uri, text |-> h.text, cfg |-> h.cfg]
           l == [uri |-> h.uri, text |-> h.text, cfg |-> h.cfg]
<1>1. /\ handlers' = handlers \ {h} /\ generation' = gen /\ latest' = l
      /\ tasks' \subseteq tasks \cup {t}
      /\ raced' \subseteq raced \cup {h.uri}
      /\ UNCHANGED <<root, documents, inbox, shown, disk, editor, dirty, texts, messages,
                     published, panicked, overwritten, unread>>
    BY DEF TakeGeneration, Supersede, editorVars
<1>2. h.uri \in Docs /\ h.text \in Texts /\ h.cfg \in Texts
    BY HandlerParts
<1>3. ServerTypes
    BY ServerTypesHold
<1>4. /\ IsFiniteSet(handlers \ {h})
      /\ Cardinality(handlers \ {h}) = Cardinality(handlers) - 1
    BY FS_RemoveElement DEF BaseInv, CountInv
<1>5. IsFiniteSet(handlers') /\ Cardinality(handlers') = Cardinality(handlers) - 1
    BY <1>1, <1>4
<1>6. Cardinality(handlers') \in Nat
    BY <1>5, FS_CardinalityType
<1>7. gen \in 0..MaxMessages /\ gen \in Nat /\ gen >= 1
    BY <1>3, <1>5, <1>6 DEF BaseInv, CountInv, ServerTypes
<1>8. /\ t \in Task /\ t.gen = gen /\ t.uri = h.uri /\ t.text = h.text /\ t.cfg = h.cfg
      /\ l \in [uri : Docs, text : Texts, cfg : Texts]
      /\ l.uri = h.uri /\ l.text = h.text /\ l.cfg = h.cfg
    BY <1>2, <1>7, PackageValues DEF Task
<1> HIDE DEF t, l
<1>9. tasks' \subseteq Task
  <2> HIDE DEF Task
  <2>1. QED
      BY <1>1, <1>8 DEF TypeOK
<1>10. \A k \in tasks : k.gen \in Nat /\ k.gen <= generation /\ k.gen >= 1
    BY <1>3 DEF TypeOK, Task, ServerTypes, BaseInv, TaskInv
<1>11. \A k \in tasks' : k.gen <= generation'
    BY <1>1, <1>3, <1>7, <1>8, <1>10 DEF ServerTypes
<1>12. handlers' \subseteq Handler /\ Cardinality(handlers') <= Workers
  <2>1. handlers' \subseteq Handler
    <3> HIDE DEF Handler
    <3>1. QED
        BY <1>1 DEF TypeOK
  <2>2. QED
      BY <2>1, <1>3, <1>5 DEF TypeOK, ServerTypes
<1>13. TypeOK'
  <2>1. generation' \in 0..MaxMessages /\ latest' \in [uri : Docs, text : Texts, cfg : Texts]
      BY <1>1, <1>7, <1>8
  <2> HIDE DEF Handler, Task, Message, Shown, gen
  <2>2. QED
      BY <1>1, <1>2, <1>9, <1>11, <1>12, <2>1 DEF TypeOK
<1>14. CountInv'
    BY <1>1, <1>3, <1>5, <1>6 DEF BaseInv, CountInv, ServerTypes
<1>15. IdInv'
    BY <1>1 DEF BaseInv, IdInv
<1>16. TaskInv'
  <2> SUFFICES ASSUME NEW k \in tasks'
               PROVE  /\ k.gen >= 1
                      /\ k.gen = generation' => latest'.uri = k.uri /\ latest'.text = k.text
                                                /\ latest'.cfg = k.cfg
      BY DEF TaskInv
  <2>1. CASE k = t
      BY <2>1, <1>1, <1>7, <1>8
  <2>2. CASE k \in tasks
      BY <2>2, <1>1, <1>3, <1>10 DEF ServerTypes
  <2>3. QED
      BY <1>1, <2>1, <2>2
<1>17. QED
    BY <1>1, <1>13, <1>14, <1>15, <1>16 DEF BaseInv, InboxInv, DirtyInv

(***************************************************************************)
(* A step of a background run: the run goes on or ends, and only a Merge   *)
(* of the current generation shows anything.                               *)
(***************************************************************************)
LEMMA BackgroundBase ==
    ASSUME TypeOK, BaseInv, NEW t \in tasks, Wake(t) \/ Engine(t) \/ Merge(t)
    PROVE  TypeOK' /\ BaseInv'
<1>1. /\ t.gen \in 0..MaxMessages /\ t.gen >= 1 /\ t.gen <= generation
      /\ t.uri \in Docs /\ t.text \in Texts /\ t.cfg \in Texts /\ t.found \in Packages
      /\ t \in Task
    BY DEF TypeOK, Task, BaseInv, TaskInv
<1>2. /\ UNCHANGED <<root, documents, generation, handlers, inbox, disk, editor, dirty, texts,
                     messages, published, latest, overwritten>>
    BY DEF Wake, Engine, Merge, historyVars, editorVars
<1> DEFINE Moved(k) == /\ k \in Task /\ k.gen = t.gen /\ k.uri = t.uri /\ k.text = t.text
                       /\ k.cfg = t.cfg
<1>3. \A k \in tasks' : k \in tasks \/ Moved(k)
  <2>1. Moved([t EXCEPT !.pc = "engine"])
      BY <1>1 DEF Task
  <2>2. Moved([t EXCEPT !.pc = "merge", !.found = FindingsOf(disk)])
    <3>1. FindingsOf(disk) \in Packages
        BY PackageValues DEF TypeOK
    <3>2. QED
        BY <1>1, <3>1 DEF Task
  <2>3. Moved([t EXCEPT !.pc = "merge"])
      BY <1>1 DEF Task
  <2> HIDE DEF Moved
  <2>4. QED
      BY <2>1, <2>2, <2>3 DEF Wake, Engine, Merge, TaskStep
<1>4. tasks' \subseteq Task /\ \A k \in tasks' : k.gen <= generation
  <2> HIDE DEF Task
  <2>1. QED
      BY <1>1, <1>3 DEF TypeOK
<1>5. TaskInv'
  <2> HIDE DEF Task
  <2>1. QED
      BY <1>1, <1>2, <1>3 DEF BaseInv, TaskInv
<1>6. shown' \in [Docs -> Shown] /\ raced' \subseteq Docs
  <2>1. CASE UNCHANGED <<shown, raced>>
    <3> HIDE DEF Shown
    <3>1. QED
        BY <2>1 DEF TypeOK
  <2>2. CASE PublishMerged(t)
    <3> DEFINE m == [text |-> t.text, cfg |-> t.cfg, package |-> t.found]
    <3>1. m \in Shown
        BY <1>1 DEF Shown
    <3>2. shown' = [shown EXCEPT ![t.uri] = m] /\ raced' \subseteq raced \cup {t.uri}
        BY <2>2 DEF PublishMerged
    <3> HIDE DEF Shown, m
    <3>3. QED
        BY <1>1, <3>1, <3>2 DEF TypeOK
  <2>3. QED
      BY <2>1, <2>2 DEF Wake, Engine, Merge, historyVars
<1>7. panicked' \subseteq 1..MaxMessages
  <2>1. panicked' \subseteq panicked \cup {t.gen}
      BY DEF Wake, Engine, Merge, historyVars
  <2>2. t.gen \in 1..MaxMessages
      BY <1>1, ConstantTypes
  <2>3. QED
      BY <2>1, <2>2 DEF TypeOK
<1>8. TypeOK'
  <2>1. unread' \in BOOLEAN
      BY DEF Wake, Engine, Merge, historyVars, TypeOK
  <2> HIDE DEF Handler, Task, Message, Shown
  <2>2. QED
      BY <1>2, <1>4, <1>6, <1>7, <2>1 DEF TypeOK
<1>9. QED
    BY <1>2, <1>5, <1>8 DEF BaseInv, CountInv, IdInv, InboxInv, DirtyInv

LEMMA ClientBase ==
    ASSUME TypeOK, BaseInv, Client
    PROVE  TypeOK' /\ BaseInv'
<1>1. /\ UNCHANGED <<root, documents, generation, handlers, tasks, shown, published,
                     latest, panicked, raced, overwritten>>
      /\ texts' \in Texts /\ disk' \in [Docs -> Texts] /\ dirty' \subseteq Docs /\ DirtyInv'
    BY ClientEffect DEF ClientFrame
<1>2. (\E m : Sends(m)) \/ UNCHANGED <<inbox, messages, editor>>
    BY ClientEffect
<1>3. ServerTypes
    BY ServerTypesHold
<1>4. ASSUME NEW m, Sends(m)
      PROVE  /\ inbox' \in Seq(Message) /\ Len(inbox') = Len(inbox) + 1 /\ InboxInv'
             /\ messages' = messages + 1 /\ messages' \in 0..MaxMessages
             /\ editor' \in [Docs -> Texts \cup {Closed}]
  <2>1. m \in Message /\ WellFormed(m) /\ inbox' = Append(inbox, m) /\ inbox \in Seq(Message)
      BY <1>4 DEF Sends, TypeOK
  <2>2. /\ inbox' \in Seq(Message) /\ Len(inbox') = Len(inbox) + 1
        /\ \A i \in 1..Len(inbox) : inbox'[i] = inbox[i]
        /\ inbox'[Len(inbox) + 1] = m
    <3> HIDE DEF Message
    <3>1. QED
        BY <2>1
  <2>3. InboxInv'
    <3> SUFFICES ASSUME NEW i \in 1..Len(inbox') PROVE WellFormed(inbox'[i])
        BY DEF InboxInv, WellFormed
    <3>1. i \in 1..Len(inbox) \/ i = Len(inbox) + 1
        BY <1>3, <2>2 DEF ServerTypes
    <3> HIDE DEF WellFormed
    <3>2. QED
        BY <2>1, <2>2, <3>1 DEF BaseInv, InboxInv
  <2>4. messages' = messages + 1 /\ messages' \in 0..MaxMessages
      BY <1>3, <1>4 DEF Sends, ServerTypes
  <2>5. m.uri \in Docs /\ m.body \in Seq(Texts)
      BY <2>1 DEF Message
  <2>6. m.op \in {"open", "change"} => Outcome(m) \in Texts
    <3>1. ASSUME m.op = "open" PROVE m.body[1] \in Texts
        BY <2>1, <2>5, <3>1 DEF WellFormed
    <3>2. ASSUME m.op = "change" PROVE m.body[Len(m.body)] \in Texts
        BY <2>1, <2>5, <3>2 DEF WellFormed
    <3>3. QED
        BY <3>1, <3>2 DEF Outcome
  <2>7. Outcome(m) \in Texts \cup {Closed}
      BY <2>6 DEF Outcome
  <2>8. editor' \in [Docs -> Texts \cup {Closed}]
      BY <1>4, <2>5, <2>7 DEF Sends, TypeOK
  <2>9. QED
      BY <2>2, <2>3, <2>4, <2>8
<1>5. /\ inbox' \in Seq(Message) /\ InboxInv' /\ messages' \in 0..MaxMessages
      /\ editor' \in [Docs -> Texts \cup {Closed}]
      /\ \/ Len(inbox') = Len(inbox) /\ messages' = messages
         \/ Len(inbox') = Len(inbox) + 1 /\ messages' = messages + 1
  <2>1. CASE UNCHANGED <<inbox, messages, editor>>
      BY <2>1 DEF TypeOK, BaseInv, InboxInv
  <2>2. QED
      BY <1>2, <1>4, <2>1
<1>6. TypeOK'
  <2>1. unread' \in BOOLEAN
    <3>1. UNCHANGED unread \/ unread' = TRUE
        BY DEF Client, Open, Edit, Save, Reload, Close, RequestFix, Send, historyVars
    <3>2. QED
        BY <3>1 DEF TypeOK
  <2> HIDE DEF Handler, Task, Message, Shown
  <2>2. QED
      BY <1>1, <1>5, <2>1 DEF TypeOK
<1>7. CountInv'
    BY <1>1, <1>3, <1>5 DEF BaseInv, CountInv, ServerTypes
<1>8. IdInv'
  <2>1. \A h \in handlers : h.id \in Nat
      BY HandlerParts
  <2>2. QED
      BY <1>1, <1>3, <1>5, <2>1 DEF BaseInv, IdInv, ServerTypes
<1>9. QED
    BY <1>1, <1>5, <1>6, <1>7, <1>8 DEF BaseInv, TaskInv

LEMMA StutterBase ==
    ASSUME TypeOK, BaseInv, UNCHANGED vars
    PROVE  TypeOK' /\ BaseInv'
    BY DEF TypeOK, BaseInv, CountInv, IdInv, InboxInv, DirtyInv, TaskInv, WellFormed, vars,
       editorVars, historyVars

(***************************************************************************)
(* Next, by the lemmas above.                                              *)
(***************************************************************************)
LEMMA NextIsAction ==
    ASSUME [Next]_vars
    PROVE  \/ Client \/ DidInsert \/ DidClose \/ ExecuteFix \/ UNCHANGED vars
           \/ \E h \in handlers : RefreshAfterFix(h) \/ TakeGeneration(h)
           \/ \E t \in tasks : Wake(t) \/ Engine(t) \/ Merge(t)
    BY DispatchIs DEF Next, Resume, Background

LEMMA StepBase ==
    ASSUME TypeOK, BaseInv, [Next]_vars
    PROVE  TypeOK' /\ BaseInv'
    BY NextIsAction, ClientBase, InsertBase, CloseBase, FixBase, RefreshBase, TakeBase,
       BackgroundBase, StutterBase

LEMMA InitBase == Init => TypeOK /\ BaseInv
<1> SUFFICES ASSUME Init PROVE TypeOK /\ BaseInv
    OBVIOUS
<1>1. shown \in [Docs -> Shown] /\ published = shown
  <2>1. Empty \in Shown
      BY PackageValues DEF Shown
  <2> HIDE DEF Shown, Empty
  <2>2. QED
      BY <2>1 DEF Init
<1>2. latest \in [uri : Docs, text : Texts, cfg : Texts]
    BY ConstantTypes DEF Init, Nobody
<1>3. Cardinality(handlers) = 0 /\ IsFiniteSet(handlers) /\ handlers \subseteq Handler
    BY FS_EmptySet DEF Init
<1>4. inbox = <<>> /\ inbox \in Seq(Message) /\ Len(inbox) = 0
    BY EmptySeq DEF Init
<1>5. TypeOK
  <2>1. unread \in BOOLEAN /\ root \in BOOLEAN
      BY DEF Init
  <2> HIDE DEF Handler, Task, Message, Shown
  <2>2. QED
      BY <1>1, <1>2, <1>3, <1>4, <2>1, ConstantTypes DEF Init, TypeOK
<1>6. BaseInv
    BY <1>3, <1>4 DEF Init, BaseInv, CountInv, IdInv, InboxInv, DirtyInv, TaskInv
<1>7. QED
    BY <1>5, <1>6

LEMMA BaseAlways == Spec => [](TypeOK /\ BaseInv)
<1>1. TypeOK /\ BaseInv /\ [Next]_vars => TypeOK' /\ BaseInv'
    BY StepBase
<1>2. QED
    BY <1>1, InitBase, PTL DEF Spec

(***************************************************************************)
(* Types, and the server's bounds: never more than Workers unfinished      *)
(* handlers, and no background run ahead of doctor_run_generation, however *)
(* many documents and messages there are.                                  *)
(***************************************************************************)
THEOREM LspTypeCorrect == Spec => []TypeOK
    BY BaseAlways, PTL
-----------------------------------------------------------------------------
(***************************************************************************)
(* Stale diagnostics.  The run of the current generation works for the     *)
(* handler that took it (TaskInv); that handler's document is raced,       *)
(* closed, about to be superseded by a newer handler, or still has what    *)
(* this one sent.  Hence the windows PublishMerged records are all.        *)
(***************************************************************************)
Carries(x, y) == x.text = y.text /\ x.cfg = y.cfg

LatestInv ==
    \/ latest.uri \in raced
    \/ documents[latest.uri] = Closed
    \/ Carries(published[latest.uri], latest)
    \/ \E h \in handlers : IsNewest(h, latest.uri)

RaceInv == LatestInv /\ StaleOnlyByRace

\* What an insertion does, for didOpen, didChange and a refresh alike.
LEMMA InsertRace ==
    ASSUME TypeOK, BaseInv, RaceInv, NEW id \in 1..MaxMessages, NEW u \in Docs,
           NEW text \in Texts, InsertAndPublish(id, u, text), UNCHANGED latest,
           \A h \in handlers : h.id = id => h.pc # "sent"
    PROVE  RaceInv'
<1>1. PICK cfg \in Texts : Inserted(id, u, text, cfg)
    BY InsertEffect
<1> DEFINE local == [text |-> text, cfg |-> cfg, package |-> NotRun]
           x == Sent(id, u, text, cfg)
<1>2. /\ documents' = [documents EXCEPT ![u] = text]
      /\ shown' = [shown EXCEPT ![u] = local] /\ published' = [published EXCEPT ![u] = local]
      /\ raced' = raced \ {u}
      /\ handlers' = {h \in handlers : h.id # id} \cup {x}
    BY <1>1 DEF Inserted
<1>3. x.pc = "sent" /\ x.uri = u /\ x.text = text /\ x.cfg = cfg
    BY DEF Sent
<1>4. latest.uri \in Docs
    BY DEF TypeOK
<1>5. /\ shown \in [Docs -> Shown] /\ published \in [Docs -> Shown]
      /\ documents \in [Docs -> Texts \cup {Closed}]
    BY DEF TypeOK
<1>6. published'[u] = local /\ shown'[u] = local
    BY <1>2, <1>5
<1>7. \A v \in Docs \ {u} : /\ published'[v] = published[v] /\ shown'[v] = shown[v]
                            /\ documents'[v] = documents[v] /\ (v \in raced <=> v \in raced')
    BY <1>2, <1>5
<1>8. StaleOnlyByRace'
  <2> SUFFICES ASSUME NEW v \in Docs, v \notin raced'
               PROVE  shown'[v].text = published'[v].text /\ shown'[v].cfg = published'[v].cfg
      BY DEF StaleOnlyByRace, Fresh
  <2>1. CASE v = u
      BY <1>6, <2>1
  <2>2. CASE v # u
      BY <1>7, <2>2 DEF RaceInv, StaleOnlyByRace, Fresh
  <2>3. QED
      BY <2>1, <2>2
<1>9. CASE latest.uri = u
  <2>1. /\ x \in handlers' /\ x.pc = "sent" /\ x.uri = latest.uri
        /\ published'[latest.uri] = [text |-> x.text, cfg |-> x.cfg, package |-> NotRun]
      BY <1>2, <1>3, <1>6, <1>9
  <2> HIDE DEF x
  <2>2. (\E h \in handlers : IsNewest(h, latest.uri))'
      BY <2>1 DEF IsNewest
  <2>3. QED
      BY <1>8, <2>2 DEF RaceInv, LatestInv
<1>10. CASE latest.uri # u
  <2>1. ASSUME NEW h \in handlers, IsNewest(h, latest.uri)
        PROVE  h \in handlers' /\ IsNewest(h, latest.uri)'
    <3>1. h.pc = "sent"
        BY <2>1 DEF IsNewest
    <3>2. h \in handlers'
      <4> HIDE DEF x
      <4>1. QED
          BY <1>2, <3>1
    <3>3. QED
        BY <1>4, <1>7, <1>10, <2>1, <3>2 DEF IsNewest
  <2>2. LatestInv'
    <3>1. CASE latest.uri \in raced \/ documents[latest.uri] = Closed
               \/ Carries(published[latest.uri], latest)
        BY <1>4, <1>7, <1>10, <3>1 DEF LatestInv, Carries
    <3>2. CASE \E h \in handlers : IsNewest(h, latest.uri)
        BY <2>1, <3>2 DEF LatestInv
    <3>3. QED
        BY <3>1, <3>2 DEF RaceInv, LatestInv
  <2>3. QED
      BY <1>8, <2>2 DEF RaceInv
<1>11. QED
    BY <1>9, <1>10

LEMMA DidInsertRace ==
    ASSUME TypeOK, BaseInv, RaceInv, DidInsert
    PROVE  RaceInv'
<1>1. PICK op \in {"open", "change"} : Receive(op)
    BY DEF DidInsert
<1>2. Head(inbox).uri \in Docs /\ HeadId \in 1..MaxMessages /\ \A h \in handlers : h.id < HeadId
    BY <1>1, HeadMessage
<1>3. \A h \in handlers : h.id # HeadId
  <2>1. HeadId \in Nat
      BY <1>2, ConstantTypes
  <2>2. QED
      BY <1>2, <2>1, HandlerParts
<1>4. Outcome(Head(inbox)) \in Texts
    BY InsertedText
<1>5. InsertAndPublish(HeadId, Head(inbox).uri, Outcome(Head(inbox))) /\ UNCHANGED latest
    BY DEF DidInsert
<1>6. QED
    BY <1>2, <1>3, <1>4, <1>5, InsertRace

LEMMA RefreshRace ==
    ASSUME TypeOK, BaseInv, RaceInv, NEW h \in handlers, RefreshAfterFix(h)
    PROVE  RaceInv'
<1>1. /\ InsertAndPublish(h.id, h.uri, disk[h.uri]) /\ UNCHANGED latest /\ h.pc = "log"
    BY DEF RefreshAfterFix
<1>2. h.id \in 1..MaxMessages /\ h.uri \in Docs /\ disk[h.uri] \in Texts
    BY HandlerParts DEF TypeOK
<1>3. \A g \in handlers : g.id = h.id => g.pc # "sent"
    BY <1>1 DEF BaseInv, IdInv
<1>4. QED
    BY <1>1, <1>2, <1>3, InsertRace

LEMMA CloseRace ==
    ASSUME TypeOK, BaseInv, RaceInv, DidClose
    PROVE  RaceInv'
<1> DEFINE u == Head(inbox).uri
<1>1. u \in Docs
    BY HeadMessage DEF DidClose
<1>2. /\ documents' = [documents EXCEPT ![u] = Closed]
      /\ shown' = [shown EXCEPT ![u] = Empty] /\ published' = [published EXCEPT ![u] = Empty]
      /\ raced' = raced \ {u} /\ UNCHANGED <<handlers, latest>>
    BY DEF DidClose
<1> HIDE DEF u
<1>3. /\ shown \in [Docs -> Shown] /\ published \in [Docs -> Shown] /\ latest.uri \in Docs
      /\ documents \in [Docs -> Texts \cup {Closed}]
    BY DEF TypeOK
<1>4. documents'[u] = Closed /\ shown'[u] = Empty /\ published'[u] = Empty
    BY <1>1, <1>2, <1>3
<1>5. \A v \in Docs \ {u} : /\ published'[v] = published[v] /\ shown'[v] = shown[v]
                            /\ documents'[v] = documents[v] /\ (v \in raced <=> v \in raced')
    BY <1>2, <1>3
<1>6. StaleOnlyByRace'
    BY <1>4, <1>5 DEF RaceInv, StaleOnlyByRace, Fresh
<1>7. LatestInv'
  <2>1. CASE latest.uri = u
      BY <1>2, <1>4, <2>1 DEF LatestInv
  <2>2. CASE latest.uri # u
      BY <1>2, <1>3, <1>5, <2>2 DEF RaceInv, LatestInv, Carries, IsNewest
  <2>3. QED
      BY <2>1, <2>2
<1>8. QED
    BY <1>6, <1>7 DEF RaceInv

LEMMA TakeRace ==
    ASSUME TypeOK, BaseInv, RaceInv, NEW h \in handlers, TakeGeneration(h)
    PROVE  RaceInv'
<1>1. /\ h.pc = "sent" /\ handlers' = handlers \ {h}
      /\ latest' = [uri |-> h.uri, text |-> h.text, cfg |-> h.cfg]
      /\ raced' = IF \E g \in handlers : IsNewest(g, h.uri) THEN raced ELSE raced \cup {h.uri}
      /\ UNCHANGED <<documents, shown, published>>
    BY DEF TakeGeneration, Supersede
<1>2. latest'.uri = h.uri /\ latest'.text = h.text /\ latest'.cfg = h.cfg
    BY <1>1
<1>3. StaleOnlyByRace'
    BY <1>1 DEF RaceInv, StaleOnlyByRace, Fresh
<1>4. CASE ~ \E g \in handlers : IsNewest(g, h.uri)
    BY <1>1, <1>2, <1>3, <1>4 DEF RaceInv, LatestInv
<1>5. ASSUME NEW g \in handlers, IsNewest(g, h.uri) PROVE LatestInv'
  <2>1. CASE g = h
    <3>1. published[h.uri] = [text |-> h.text, cfg |-> h.cfg, package |-> NotRun]
        BY <1>5, <2>1 DEF IsNewest
    <3>2. published'[latest'.uri].text = latest'.text /\ published'[latest'.uri].cfg = latest'.cfg
        BY <1>1, <1>2, <3>1
    <3>3. QED
        BY <3>2 DEF LatestInv, Carries
  <2>2. CASE g # h
    <3>1. g \in handlers' /\ IsNewest(g, latest'.uri)
        BY <1>1, <1>2, <1>5, <2>2
    <3>2. (\E k \in handlers : IsNewest(k, latest.uri))'
        BY <1>1, <3>1 DEF IsNewest
    <3>3. QED
        BY <3>2 DEF LatestInv
  <2>3. QED
      BY <2>1, <2>2
<1>6. QED
    BY <1>3, <1>4, <1>5 DEF RaceInv

LEMMA BackgroundRace ==
    ASSUME TypeOK, BaseInv, RaceInv, NEW t \in tasks, Wake(t) \/ Engine(t) \/ Merge(t)
    PROVE  RaceInv'
<1>1. UNCHANGED <<documents, handlers, published, latest>>
    BY DEF Wake, Engine, Merge, historyVars
<1>2. CASE UNCHANGED <<shown, raced>>
    BY <1>1, <1>2 DEF RaceInv, LatestInv, StaleOnlyByRace, Fresh, Carries, IsNewest
<1>3. CASE t.gen = generation /\ PublishMerged(t)
  <2> DEFINE m == [text |-> t.text, cfg |-> t.cfg, package |-> t.found]
  <2>1. /\ shown' = [shown EXCEPT ![t.uri] = m]
        /\ raced' = IF documents[t.uri] = Closed
                       \/ \E h \in handlers : h.uri = t.uri /\ h.pc = "sent"
                    THEN raced \cup {t.uri} ELSE raced
      BY <1>3 DEF PublishMerged
  <2>2. m.text = t.text /\ m.cfg = t.cfg
      OBVIOUS
  <2> HIDE DEF m
  <2>3. t.uri \in Docs /\ shown \in [Docs -> Shown]
      BY DEF TypeOK, Task
  <2>4. latest.uri = t.uri /\ latest.text = t.text /\ latest.cfg = t.cfg
      BY <1>3 DEF BaseInv, TaskInv
  <2>5. LatestInv'
      BY <1>1, <2>1 DEF RaceInv, LatestInv, Carries, IsNewest
  <2>6. t.uri \in raced' \/ Carries(published[t.uri], latest)
    <3>1. CASE \E h \in handlers : IsNewest(h, latest.uri)
        BY <2>1, <2>4, <3>1 DEF IsNewest
    <3>2. CASE ~ \E h \in handlers : IsNewest(h, latest.uri)
        BY <2>1, <2>4, <3>2 DEF RaceInv, LatestInv
    <3>3. QED
        BY <3>1, <3>2
  <2>7. \A v \in Docs : shown'[v] = IF v = t.uri THEN m ELSE shown[v]
      BY <2>1, <2>3
  <2>8. ASSUME NEW v \in Docs, v \notin raced'
        PROVE  shown'[v].text = published'[v].text /\ shown'[v].cfg = published'[v].cfg
    <3>1. CASE v = t.uri
        BY <1>1, <2>2, <2>4, <2>6, <2>7, <2>8, <3>1 DEF Carries
    <3>2. CASE v # t.uri
      <4>1. v \notin raced
          BY <2>1, <2>8
      <4>2. QED
          BY <1>1, <2>7, <3>2, <4>1 DEF RaceInv, StaleOnlyByRace, Fresh
    <3>3. QED
        BY <3>1, <3>2
  <2>9. QED
      BY <2>5, <2>8 DEF RaceInv, StaleOnlyByRace, Fresh
<1>4. QED
    BY <1>2, <1>3 DEF Wake, Engine, Merge, historyVars

LEMMA StepRace ==
    ASSUME TypeOK, BaseInv, RaceInv, [Next]_vars
    PROVE  RaceInv'
<1>1. CASE UNCHANGED <<documents, handlers, published, latest, shown, raced>>
    BY <1>1 DEF RaceInv, LatestInv, StaleOnlyByRace, Fresh, Carries, IsNewest
<1>2. CASE Client
    BY <1>1, <1>2, ClientEffect DEF ClientFrame
<1>3. CASE ExecuteFix
  <2>1. /\ UNCHANGED <<documents, published, latest, shown, raced>> /\ handlers \subseteq handlers'
      BY <1>3 DEF ExecuteFix, historyVars
  <2>2. QED
      BY <2>1 DEF RaceInv, LatestInv, StaleOnlyByRace, Fresh, Carries, IsNewest
<1>4. CASE UNCHANGED vars
    BY <1>1, <1>4 DEF vars, historyVars
<1>5. QED
    BY <1>2, <1>3, <1>4, NextIsAction, DidInsertRace, CloseRace, RefreshRace, TakeRace,
       BackgroundRace

(***************************************************************************)
(* The two looks at doctor_run_generation close every window but the ones  *)
(* named, for any number of documents, handlers and background runs.       *)
(***************************************************************************)
THEOREM OnlyRacesAreStale == Spec => []StaleOnlyByRace
<1>1. Init => RaceInv
  <2> SUFFICES ASSUME Init PROVE RaceInv
      OBVIOUS
  <2>1. documents[latest.uri] = Closed
      BY ConstantTypes DEF Init, Nobody
  <2>2. StaleOnlyByRace
      BY DEF Init, StaleOnlyByRace, Fresh
  <2>3. QED
      BY <2>1, <2>2 DEF RaceInv, LatestInv
<1>2. TypeOK /\ BaseInv /\ RaceInv /\ [Next]_vars => RaceInv'
    BY StepRace
<1>3. RaceInv => StaleOnlyByRace
    BY DEF RaceInv
<1>4. QED
    BY <1>1, <1>2, <1>3, BaseAlways, PTL DEF Spec
-----------------------------------------------------------------------------
(***************************************************************************)
(* The store and the editor.  The last message about a document that is    *)
(* still on its way carries the editor's text; when none is, the store has *)
(* it, or a fix has replaced it.                                           *)
(***************************************************************************)
About(i, u) == inbox[i].uri = u /\ inbox[i].op # "fix"

MirrorInv ==
    \A u \in Docs :
        /\ \/ documents[u] = editor[u]
           \/ u \in overwritten
           \/ \E i \in 1..Len(inbox) : About(i, u)
        /\ \A i \in 1..Len(inbox) :
               /\ About(i, u)
               /\ \A j \in (i + 1)..Len(inbox) : ~ About(j, u)
               => Outcome(inbox[i]) = editor[u]

LEMMA ClientMirror ==
    ASSUME TypeOK, BaseInv, MirrorInv, Client
    PROVE  MirrorInv'
<1>1. UNCHANGED <<documents, overwritten>>
    BY ClientEffect DEF ClientFrame
<1>2. CASE UNCHANGED <<inbox, editor>>
    BY <1>1, <1>2 DEF MirrorInv, About, Outcome
<1>3. ASSUME NEW m, Sends(m) PROVE MirrorInv'
  <2>0. PICK n \in Nat : n = Len(inbox)
      BY DEF TypeOK
  <2>1. /\ m \in Message /\ inbox \in Seq(Message) /\ inbox' = Append(inbox, m)
        /\ editor' = IF m.op = "fix" THEN editor ELSE [editor EXCEPT ![m.uri] = Outcome(m)]
        /\ editor \in [Docs -> Texts \cup {Closed}]
      BY <1>3 DEF Sends, TypeOK
  <2>2. /\ n \in Nat /\ Len(inbox') = n + 1 /\ inbox'[n + 1] = m
        /\ \A i \in 1..n : inbox'[i] = inbox[i]
    <3> HIDE DEF Message
    <3>1. QED
        BY <2>1, <2>0
  <2>3. m.uri \in Docs
      BY <2>1 DEF Message
  <2> SUFFICES ASSUME NEW u \in Docs
               PROVE  /\ \/ documents[u] = editor'[u]
                         \/ u \in overwritten
                         \/ \E i \in 1..(n + 1) : About(i, u)'
                      /\ \A i \in 1..(n + 1) :
                             /\ About(i, u)'
                             /\ \A j \in (i + 1)..(n + 1) : ~ About(j, u)'
                             => Outcome(inbox'[i]) = editor'[u]
    <3>1. Len(inbox') = n + 1
        BY <2>2
    <3>2. QED
        BY <1>1, <3>1 DEF MirrorInv, Outcome
  <2>4. /\ \A i \in 1..n : About(i, u)' <=> About(i, u)
        /\ About(n + 1, u)' <=> (m.uri = u /\ m.op # "fix")
      BY <2>2 DEF About
  <2>5. CASE m.uri = u /\ m.op # "fix"
    <3>1. About(n + 1, u)' /\ n + 1 \in 1..(n + 1) /\ inbox'[n + 1] = m
        BY <2>2, <2>4, <2>5
    <3>2. editor'[u] = Outcome(m)
        BY <2>1, <2>3, <2>5
    <3>3. ASSUME NEW i \in 1..(n + 1), \A j \in (i + 1)..(n + 1) : ~ About(j, u)'
          PROVE  i = n + 1
        BY <2>2, <3>1, <3>3
    <3>4. QED
        BY <3>1, <3>2, <3>3
  <2>6. CASE ~ (m.uri = u /\ m.op # "fix")
    <3>1. editor'[u] = editor[u]
        BY <2>1, <2>3, <2>6
    <3>2. \/ documents[u] = editor[u] \/ u \in overwritten
          \/ \E i \in 1..n : About(i, u)
        BY <2>0 DEF MirrorInv
    <3>3. ASSUME NEW i \in 1..(n + 1), About(i, u)',
                 \A j \in (i + 1)..(n + 1) : ~ About(j, u)'
          PROVE  Outcome(inbox'[i]) = editor'[u]
      <4>1. i \in 1..n
          BY <2>2, <2>4, <2>6, <3>3
      <4>2. About(i, u) /\ \A j \in (i + 1)..n : ~ About(j, u)
          BY <2>2, <2>4, <3>3, <4>1
      <4>3. Outcome(inbox[i]) = editor[u]
          BY <2>0, <4>1, <4>2 DEF MirrorInv
      <4>4. QED
          BY <2>2, <3>1, <4>1, <4>3
    <3>4. (\E i \in 1..n : About(i, u)) => \E i \in 1..(n + 1) : About(i, u)'
        BY <2>2, <2>4
    <3>5. QED
        BY <3>1, <3>2, <3>3, <3>4
  <2>7. QED
      BY <2>5, <2>6
<1>4. QED
    BY <1>2, <1>3, ClientEffect

(***************************************************************************)
(* A message is taken: its document gets its text if the message is about  *)
(* one, and the later messages stay the later ones.                        *)
(***************************************************************************)
LEMMA ReceiveMirror ==
    ASSUME TypeOK, BaseInv, MirrorInv, NEW op, Receive(op), UNCHANGED editor,
           op = "fix" => UNCHANGED <<documents, overwritten>>,
           op # "fix" => /\ documents' = [documents EXCEPT ![Head(inbox).uri] = Outcome(Head(inbox))]
                         /\ overwritten' = overwritten \ {Head(inbox).uri}
    PROVE  MirrorInv'
<1> DEFINE n == Len(inbox)
           m == inbox[1]
<1>1. /\ n \in Nat \ {0} /\ Len(inbox') = n - 1 /\ m.op = op /\ m.uri \in Docs
      /\ \A i \in 1..(n - 1) : inbox'[i] = inbox[i + 1]
      /\ Head(inbox) = m
    BY HeadMessage
<1>2. /\ op = "fix" => UNCHANGED <<documents, overwritten>>
      /\ op # "fix" => /\ documents' = [documents EXCEPT ![m.uri] = Outcome(m)]
                        /\ overwritten' = overwritten \ {m.uri}
    BY <1>1
<1>3. documents \in [Docs -> Texts \cup {Closed}]
    BY DEF TypeOK
<1>4. Len(inbox') = n - 1 /\ n \in Nat \ {0}
    BY <1>1
<1> SUFFICES ASSUME NEW u \in Docs
             PROVE  /\ \/ documents'[u] = editor[u]
                       \/ u \in overwritten'
                       \/ \E i \in 1..(n - 1) : About(i, u)'
                    /\ \A i \in 1..(n - 1) :
                           /\ About(i, u)'
                           /\ \A j \in (i + 1)..(n - 1) : ~ About(j, u)'
                           => Outcome(inbox'[i]) = editor[u]
    BY <1>4 DEF MirrorInv, Outcome
<1> HIDE DEF n
<1>5. \A i \in 1..(n - 1) : About(i, u)' <=> About(i + 1, u)
    BY <1>1 DEF About
<1>6. About(1, u) <=> (m.uri = u /\ op # "fix")
    BY <1>1 DEF About
<1>7. /\ documents[u] = editor[u] \/ u \in overwritten \/ \E i \in 1..n : About(i, u)
      /\ \A i \in 1..n : About(i, u) /\ (\A j \in (i + 1)..n : ~ About(j, u))
                           => Outcome(inbox[i]) = editor[u]
    BY DEF MirrorInv, n
<1> HIDE DEF m
<1>8. ASSUME NEW i \in 1..(n - 1), About(i, u)', \A j \in (i + 1)..(n - 1) : ~ About(j, u)'
      PROVE  Outcome(inbox'[i]) = editor[u]
  <2>1. i + 1 \in 1..n /\ About(i + 1, u) /\ inbox'[i] = inbox[i + 1]
      BY <1>1, <1>5, <1>8
  <2>2. ASSUME NEW j \in (i + 2)..n PROVE ~ About(j, u)
    <3>1. j - 1 \in (i + 1)..(n - 1) /\ j - 1 \in 1..(n - 1) /\ (j - 1) + 1 = j
        BY <1>1, <1>8
    <3>2. QED
        BY <1>5, <1>8, <3>1
  <2>3. \A j \in ((i + 1) + 1)..n : ~ About(j, u)
    <3>1. (i + 1) + 1 = i + 2
        BY <1>1
    <3>2. QED
        BY <2>2, <3>1
  <2>4. QED
      BY <1>7, <2>1, <2>3
<1>9. \/ documents'[u] = editor[u] \/ u \in overwritten'
      \/ \E i \in 1..(n - 1) : About(i, u)'
  <2> SUFFICES ASSUME \A i \in 1..(n - 1) : ~ About(i, u)'
               PROVE  documents'[u] = editor[u] \/ u \in overwritten'
      OBVIOUS
  <2>1. \A j \in 2..n : ~ About(j, u)
    <3> SUFFICES ASSUME NEW j \in 2..n PROVE ~ About(j, u)
        OBVIOUS
    <3>1. j - 1 \in 1..(n - 1) /\ (j - 1) + 1 = j
        BY <1>1
    <3>2. QED
        BY <1>5, <3>1
  <2>2. CASE About(1, u)
    <3>1. op # "fix" /\ m.uri = u
        BY <1>6, <2>2
    <3>2. documents'[u] = Outcome(m)
        BY <1>2, <1>3, <3>1
    <3>3. 1 \in 1..n /\ \A j \in (1 + 1)..n : ~ About(j, u)
        BY <1>1, <2>1
    <3>4. Outcome(inbox[1]) = editor[u]
        BY <1>7, <2>2, <3>3
    <3>5. QED
        BY <3>2, <3>4 DEF m
  <2>3. CASE ~ About(1, u)
    <3>1. \A i \in 1..n : ~ About(i, u)
        BY <1>1, <2>1, <2>3
    <3>2. documents[u] = editor[u] \/ u \in overwritten
        BY <1>7, <3>1
    <3>3. documents'[u] = documents[u] /\ (u \in overwritten => u \in overwritten')
        BY <1>1, <1>2, <1>3, <1>6, <2>3
    <3>4. QED
        BY <3>2, <3>3
  <2>4. QED
      BY <2>2, <2>3
<1>10. QED
    BY <1>8, <1>9

LEMMA DispatchMirror ==
    ASSUME TypeOK, BaseInv, MirrorInv, DidInsert \/ DidClose \/ ExecuteFix
    PROVE  MirrorInv'
<1>1. CASE DidInsert
  <2>1. PICK op \in {"open", "change"} : Receive(op)
      BY <1>1 DEF DidInsert
  <2> DEFINE u == Head(inbox).uri
             text == Outcome(Head(inbox))
  <2>2. u \in Docs /\ text \in Texts /\ HeadId \in 1..MaxMessages
      BY <1>1, <2>1, HeadMessage, InsertedText
  <2>3. InsertAndPublish(HeadId, u, text) /\ overwritten' = overwritten \ {u} /\ UNCHANGED editor
      BY <1>1 DEF DidInsert, editorVars
  <2>4. documents' = [documents EXCEPT ![u] = text]
      BY <2>3 DEF InsertAndPublish
  <2>5. op # "fix"
      OBVIOUS
  <2>6. QED
      BY <2>1, <2>3, <2>4, <2>5, ReceiveMirror
<1>2. CASE DidClose
  <2>1. Receive("close")
      BY <1>2 DEF DidClose
  <2>2. Head(inbox).op = "close"
      BY <2>1 DEF Receive
  <2>3. Outcome(Head(inbox)) = Closed
      BY <2>2 DEF Outcome
  <2>4. /\ documents' = [documents EXCEPT ![Head(inbox).uri] = Outcome(Head(inbox))]
        /\ overwritten' = overwritten \ {Head(inbox).uri} /\ UNCHANGED editor
      BY <1>2, <2>3 DEF DidClose, editorVars
  <2>5. QED
      BY <2>1, <2>4, ReceiveMirror
<1>3. CASE ExecuteFix
  <2>1. Receive("fix") /\ UNCHANGED <<documents, overwritten, editor>>
      BY <1>3 DEF ExecuteFix, historyVars
  <2>2. QED
      BY <2>1, ReceiveMirror
<1>4. QED
    BY <1>1, <1>2, <1>3

LEMMA RefreshMirror ==
    ASSUME TypeOK, BaseInv, MirrorInv, NEW h \in handlers, RefreshAfterFix(h)
    PROVE  MirrorInv'
<1> DEFINE v == h.uri
<1>1. v \in Docs /\ documents \in [Docs -> Texts \cup {Closed}]
    BY HandlerParts DEF TypeOK
<1>2. /\ documents' = [documents EXCEPT ![v] = disk[v]] /\ UNCHANGED <<inbox, editor>>
      /\ overwritten' = IF editor[v] = disk[v] THEN overwritten ELSE overwritten \cup {v}
    BY DEF RefreshAfterFix, InsertAndPublish, editorVars
<1> HIDE DEF v
<1>3. ASSUME NEW u \in Docs
      PROVE  \/ documents'[u] = editor[u] \/ u \in overwritten'
             \/ \E i \in 1..Len(inbox) : About(i, u)
  <2>1. CASE u = v
      BY <1>1, <1>2, <2>1
  <2>2. CASE u # v
      BY <1>1, <1>2, <2>2 DEF MirrorInv
  <2>3. QED
      BY <2>1, <2>2
<1>4. QED
    BY <1>2, <1>3 DEF MirrorInv, About, Outcome

LEMMA StepMirror ==
    ASSUME TypeOK, BaseInv, MirrorInv, [Next]_vars
    PROVE  MirrorInv'
<1>1. CASE UNCHANGED <<documents, overwritten, inbox, editor>>
    BY <1>1 DEF MirrorInv, About, Outcome
<1>2. CASE \/ UNCHANGED vars
           \/ \E h \in handlers : TakeGeneration(h)
           \/ \E t \in tasks : Wake(t) \/ Engine(t) \/ Merge(t)
  <2>1. UNCHANGED <<documents, overwritten, inbox, editor>>
      BY <1>2 DEF vars, TakeGeneration, Supersede, Wake, Engine, Merge, historyVars, editorVars
  <2>2. QED
      BY <1>1, <2>1
<1>3. QED
    BY <1>2, NextIsAction, ClientMirror, DispatchMirror, RefreshMirror

(***************************************************************************)
(* With full-text synchronisation the server's store follows the editor,   *)
(* message by message, for any documents and any number of changes in one  *)
(* notification; a fix's reload of the file is the only other writer.      *)
(***************************************************************************)
THEOREM StoreFollowsEditor == Spec => []StoreMirrorsEditor
<1>1. Init => MirrorInv
    BY DEF Init, MirrorInv
<1>2. TypeOK /\ BaseInv /\ MirrorInv /\ [Next]_vars => MirrorInv'
    BY StepMirror
<1>3. MirrorInv => StoreMirrorsEditor
    BY DEF MirrorInv, StoreMirrorsEditor, About
<1>4. QED
    BY <1>1, <1>2, <1>3, BaseAlways, PTL DEF Spec
=============================================================================
