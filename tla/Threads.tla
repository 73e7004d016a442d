-------------------------------- MODULE Threads --------------------------------
(***************************************************************************)
(* Inquiries about the animals of a shelter, the messages of their         *)
(* conversations, and the notices of both that members read.               *)
(*                                                                         *)
(* Starting an inquiry is deliberately not a transaction: the thread, each *)
(* representative's notice and the first message are committed one after   *)
(* the other, and a request that ends in between leaves what it has        *)
(* written.  A message and the notice of it are one transaction.           *)
(***************************************************************************)
EXTENDS Integers, Sequences, FiniteSets

CONSTANTS
    Members,
    ActiveMembers,     \* those whose account is active
    Animals,           \* animals of one shelter
    Representatives,   \* the shelter's, who are told of a new thread
    Servers,           \* requests being served at the same time
    MaxThreads, MaxMessages,   \* bounds on what is ever written
    None

\* What is asked of the constants.
ThreadsAssumption ==
    /\ Representatives \subseteq Members
    /\ MaxThreads \in Nat /\ MaxMessages \in Nat

VARIABLES
    inquiry,           \* the inquiries collection, in order of creation
    message,           \* the messages collection, in order of creation
    notice,            \* the notifications collection, in order of creation
    staff,             \* members who manage the shelter
    talk,              \* talk[w]: the request w serves and what it has read
    raced,             \* history: <<member, animal>> looked up by two at once
    cutShort           \* history: threads whose opening was interrupted

threadVars == <<inquiry, message, notice, staff, talk, raced, cutShort>>

\* When a notice was read: not yet, or at one of two times.
ReadAt == 0..2

Idle == [op |-> "IDLE", user |-> None, animal |-> None, about |-> 0,
         role |-> "NONE", left |-> {}]

\* The request of u that is about to write into thread i.
Post(u, i) == [Idle EXCEPT !.op = "POST", !.user = u, !.about = i]

\* The same while the representatives in rs are still to be told of the thread.
Alert(u, i, rs) ==
    IF rs = {} THEN Post(u, i) ELSE [Post(u, i) EXCEPT !.op = "ALERT", !.left = rs]

Init ==
    /\ inquiry = <<>>
    /\ message = <<>>
    /\ notice = <<>>
    /\ staff = Representatives
    /\ talk = [w \in Servers |-> Idle]
    /\ raced = {}
    /\ cutShort = {}

-----------------------------------------------------------------------------
\* Notices

Notice(u, type, i) == [recipient |-> u, type |-> type, thread |-> i, readAt |-> 0]

Unread(u) == {n \in DOMAIN notice : notice[n].recipient = u /\ notice[n].readAt = 0}

Notify(u, type, i) == notice' = Append(notice, Notice(u, type, i))

\* The notice is read first: it must be the requester's own.
BeginMark(w, u, n) ==
    /\ talk[w] = Idle
    /\ n \in DOMAIN notice
    /\ notice[n].recipient = u
    /\ talk' = [talk EXCEPT ![w] = [Idle EXCEPT !.op = "MARK", !.about = n]]
    /\ UNCHANGED <<inquiry, message, notice, staff, raced, cutShort>>

StampAlways(d, at) == [d EXCEPT !.readAt = at]

\* Only a notice that has not been read matches the update.
Stamp(d, at) == IF d.readAt = 0 THEN [d EXCEPT !.readAt = at] ELSE d

MarkRead(w) ==
    /\ talk[w].op = "MARK"
    /\ \E at \in ReadAt \ {0} : notice' = [notice EXCEPT ![talk[w].about] = Stamp(@, at)]
    /\ talk' = [talk EXCEPT ![w] = Idle]
    /\ UNCHANGED <<inquiry, message, staff, raced, cutShort>>

MarkAllRead(u) ==
    /\ Unread(u) # {}
    /\ \E at \in ReadAt \ {0} :
          notice' = [n \in DOMAIN notice |->
                       IF n \in Unread(u) THEN [notice[n] EXCEPT !.readAt = at]
                                          ELSE notice[n]]
    /\ UNCHANGED <<inquiry, message, staff, talk, raced, cutShort>>

-----------------------------------------------------------------------------
\* Starting an inquiry

Inquiry(u, a) == [inquirer |-> u, animal |-> a]

Threads(u, a) == {i \in DOMAIN inquiry : inquiry[i] = Inquiry(u, a)}

\* Requests that have found no thread of u about a and are about to open one.
Opening(u, a) == {w \in Servers : /\ talk[w].op = "OPEN"
                                  /\ talk[w].user = u
                                  /\ talk[w].animal = a}

\* The inquirer must be active.
BeginStart(w, u, a) ==
    /\ talk[w] = Idle
    /\ u \in ActiveMembers
    /\ talk' = [talk EXCEPT ![w] = [Idle EXCEPT !.op = "LOOK", !.user = u, !.animal = a]]
    /\ UNCHANGED <<inquiry, message, notice, staff, raced, cutShort>>

\* A thread of the same member about the same animal is used again.
FindThread(w) ==
    LET t == talk[w] IN
    /\ t.op = "LOOK"
    /\ \E i \in Threads(t.user, t.animal) :
          talk' = [talk EXCEPT ![w] = Post(t.user, i)]
    /\ UNCHANGED <<inquiry, message, notice, staff, raced, cutShort>>

FindNoThreadUnlooked(w) ==
    LET t == talk[w] IN
    /\ t.op = "LOOK"
    /\ talk' = [talk EXCEPT ![w].op = "OPEN"]
    /\ raced' = IF Opening(t.user, t.animal) # {}
                  THEN raced \cup {<<t.user, t.animal>>} ELSE raced
    /\ UNCHANGED <<inquiry, message, notice, staff, cutShort>>

FindNoThread(w) ==
    LET t == talk[w] IN
    /\ t.op = "LOOK"
    /\ Threads(t.user, t.animal) = {}
    /\ talk' = [talk EXCEPT ![w].op = "OPEN"]
    /\ raced' = IF Opening(t.user, t.animal) # {}
                  THEN raced \cup {<<t.user, t.animal>>} ELSE raced
    /\ UNCHANGED <<inquiry, message, notice, staff, cutShort>>

\* No index makes the thread unique.
OpenThread(w) ==
    LET t == talk[w] IN
    /\ t.op = "OPEN"
    /\ Len(inquiry) < MaxThreads
    /\ inquiry' = Append(inquiry, Inquiry(t.user, t.animal))
    /\ talk' = [talk EXCEPT ![w] = Alert(t.user, Len(inquiry) + 1, Representatives)]
    /\ UNCHANGED <<message, notice, staff, raced, cutShort>>

AlertNext(w) ==
    LET t == talk[w] IN
    /\ t.op = "ALERT"
    /\ \E r \in t.left :
          /\ Notify(r, "NEW_INQUIRY", t.about)
          /\ talk' = [talk EXCEPT ![w] = Alert(t.user, t.about, t.left \ {r})]
    /\ UNCHANGED <<inquiry, message, staff, raced, cutShort>>

-----------------------------------------------------------------------------
\* Messages

BeginPost(w, u, i) ==
    /\ talk[w] = Idle
    /\ i \in DOMAIN inquiry
    /\ talk' = [talk EXCEPT ![w] = Post(u, i)]
    /\ UNCHANGED <<inquiry, message, notice, staff, raced, cutShort>>

\* The two sides of the conversation about thread i.
Participants(i) == [applicant |-> inquiry[i].inquirer, managers |-> staff]

\* The side u takes in thread i.
SenderRole(u, i) ==
    IF u = Participants(i).applicant THEN "APPLICANT"
    ELSE IF u \in Participants(i).managers THEN "SHELTER" ELSE "NONE"

AuthorizeAnyone(w) ==
    LET t == talk[w] IN
    /\ t.op = "POST"
    /\ talk' = [talk EXCEPT ![w].op = "SEND",
                            ![w].role = SenderRole(t.user, t.about)]
    /\ UNCHANGED <<inquiry, message, notice, staff, raced, cutShort>>

\* Nobody else may post.
Authorize(w) ==
    LET t == talk[w] IN
    /\ t.op = "POST"
    /\ SenderRole(t.user, t.about) # "NONE"
    /\ talk' = [talk EXCEPT ![w].op = "SEND",
                            ![w].role = SenderRole(t.user, t.about)]
    /\ UNCHANGED <<inquiry, message, notice, staff, raced, cutShort>>

Message(t) == [thread |-> t.about, sender |-> t.user, role |-> t.role]

SendUntold(w) ==
    LET t == talk[w] IN
    /\ t.op = "SEND"
    /\ Len(message) < MaxMessages
    /\ message' = Append(message, Message(t))
    /\ talk' = [talk EXCEPT ![w] = Idle]
    /\ UNCHANGED <<inquiry, notice, staff, raced, cutShort>>

\* The inquirer is told when the shelter answers.
Send(w) ==
    LET t == talk[w] IN
    /\ t.op = "SEND"
    /\ Len(message) < MaxMessages
    /\ message' = Append(message, Message(t))
    /\ IF t.role = "SHELTER"
         THEN Notify(Participants(t.about).applicant, "NEW_MESSAGE", t.about)
         ELSE UNCHANGED notice
    /\ talk' = [talk EXCEPT ![w] = Idle]
    /\ UNCHANGED <<inquiry, staff, raced, cutShort>>

\* Membership grants and takes away the management of the shelter.
ChangeStaff(u) ==
    /\ u \in Representatives
    /\ staff' = IF u \in staff THEN staff \ {u} ELSE staff \cup {u}
    /\ UNCHANGED <<inquiry, message, notice, talk, raced, cutShort>>

\* An error or a crash: what is committed stays.
Abort(w) ==
    /\ talk[w] # Idle
    /\ talk' = [talk EXCEPT ![w] = Idle]
    /\ cutShort' = IF talk[w].op = "ALERT" THEN cutShort \cup {talk[w].about} ELSE cutShort
    /\ UNCHANGED <<inquiry, message, notice, staff, raced>>

-----------------------------------------------------------------------------
MemberStep(u) == MarkAllRead(u) \/ ChangeStaff(u)

BeginStep(w, u) ==
    \/ \E a \in Animals : BeginStart(w, u, a)
    \/ \E i \in DOMAIN inquiry : BeginPost(w, u, i)
    \/ \E n \in DOMAIN notice : BeginMark(w, u, n)

ServeStep(w) ==
    \/ FindThread(w) \/ FindNoThread(w) \/ OpenThread(w) \/ AlertNext(w)
    \/ Authorize(w) \/ Send(w)
    \/ MarkRead(w)
    \/ Abort(w)

Next ==
    \/ \E u \in Members : MemberStep(u)
    \/ \E w \in Servers, u \in Members : BeginStep(w, u)
    \/ \E w \in Servers : ServeStep(w)

Spec == Init /\ [][Next]_threadVars

-----------------------------------------------------------------------------
\* Properties

InquiryDoc == [inquirer : Members, animal : Animals]

MessageDoc == [thread : 1..MaxThreads, sender : Members,
               role : {"APPLICANT", "SHELTER"}]

NoticeDoc == [recipient : Members, type : {"NEW_INQUIRY", "NEW_MESSAGE"},
              thread : 1..MaxThreads, readAt : ReadAt]

\* Documents and requests have their shape.
TypeOK ==
    /\ inquiry \in Seq(InquiryDoc) /\ Len(inquiry) <= MaxThreads
    /\ message \in Seq(MessageDoc) /\ Len(message) <= MaxMessages
    /\ notice \in Seq(NoticeDoc)
    /\ staff \subseteq Members
    /\ talk \in [Servers ->
         [op : {"IDLE", "LOOK", "OPEN", "ALERT", "POST", "SEND", "MARK"},
          user : Members \cup {None}, animal : Animals \cup {None}, about : Nat,
          role : {"NONE", "APPLICANT", "SHELTER"}, left : SUBSET Representatives]]
    /\ raced \subseteq Members \X Animals
    /\ cutShort \subseteq DOMAIN inquiry

\* What the model's comment claims and the schema does not keep: "One thread
\* per (inquirer, animal)".
OneThread ==
    \A u \in Members, a \in Animals : Cardinality(Threads(u, a)) <= 1

\* What is kept: a second thread is opened only by a request that looked for
\* the first while another was about to open it.
OneThreadUnlessRaced ==
    \A u \in Members, a \in Animals :
        <<u, a>> \notin raced => Cardinality(Threads(u, a)) <= 1

Told(u, type, i) ==
    Cardinality({n \in DOMAIN notice : /\ notice[n].recipient = u
                                       /\ notice[n].type = type
                                       /\ notice[n].thread = i})

Conversation(i) == {m \in DOMAIN message : message[m].thread = i}

Answers(i) == {m \in Conversation(i) : message[m].role = "SHELTER"}

\* Both sides are told once of what concerns them: the inquirer of each answer,
\* each representative of the thread, unless the request that opened it did not
\* come so far; a later one about the same animal does not make up for it.
ParticipantsTold ==
    \A i \in DOMAIN inquiry :
        /\ Told(inquiry[i].inquirer, "NEW_MESSAGE", i) = Cardinality(Answers(i))
        /\ \A r \in Representatives :
              LET waits == \E w \in Servers : talk[w].op = "ALERT" /\ talk[w].about = i
                                              /\ r \in talk[w].left
              IN  IF waits THEN Told(r, "NEW_INQUIRY", i) = 0
                  ELSE IF i \in cutShort THEN Told(r, "NEW_INQUIRY", i) <= 1
                  ELSE Told(r, "NEW_INQUIRY", i) = 1

\* "Marking an already-read notification keeps the first time", although two
\* requests mark it and a third marks all; and a read notice stays read.
ReadIsFinal ==
    [][\A n \in DOMAIN notice :
          /\ n \in DOMAIN notice'
          /\ notice[n].readAt # 0 => notice'[n] = notice[n]]_threadVars
=============================================================================
