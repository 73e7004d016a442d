------------------------------- MODULE Editorial -------------------------------
(***************************************************************************)
(* Documents that people write, edit and take down: announcements and FAQs *)
(* of a shelter, its questionnaires, reviews, and reports with the         *)
(* operator's verdict.                                                     *)
(*                                                                         *)
(* All follow one protocol.  A request reads the document outside its      *)
(* transaction and saves it under the version it has read, which the save  *)
(* increments; a removal and the erasure of a withdrawn member's text look *)
(* at no version.  A questionnaire's version doubles as the name an        *)
(* application keeps of the questions it has answered.                     *)
(***************************************************************************)
EXTENDS Integers, Sequences, FiniteSets

CONSTANTS
    Slots,         \* documents that may be written
    Desks,         \* requests being served at the same time
    MaxEdits,      \* bound: texts ever written
    None

\* What is asked of the constants.
EditorialAssumption == MaxEdits \in Nat

VARIABLES
    kind,          \* what the documents are, which does not change
    doc,           \* doc[d]: the collection
    edits,         \* texts written so far: each text is a number of its own
    hand,          \* hand[w]: the request w serves and the copy it has read
    answered,      \* answers kept with an application: <<version, questions>>
    past           \* history: past[d], the text of each version and the text
                   \* its request had read

editorialVars == <<kind, doc, edits, hand, answered, past>>

-----------------------------------------------------------------------------
\* What tells the aggregates apart.  keyed: a second one of the same key
\* (shelter and purpose, author and placement) is refused by a unique index;
\* once: it is changed only once; erasable: its author's withdrawal blanks it.

Kind(name) == [name |-> name, keyed |-> FALSE, once |-> FALSE, erasable |-> FALSE]

Announcement == Kind("ANNOUNCEMENT")

Faq == Kind("FAQ")

Questionnaire == [Kind("QUESTIONNAIRE") EXCEPT !.keyed = TRUE]

Review == [Kind("REVIEW") EXCEPT !.keyed = TRUE, !.erasable = TRUE]

Report == [Kind("REPORT") EXCEPT !.once = TRUE, !.erasable = TRUE]

Kinds == {Announcement, Faq, Questionnaire, Review, Report}

Blank == 0

\* The version a document is created with.
FirstVersion == IF kind = Questionnaire THEN 1 ELSE 0

NoDoc == [state |-> "ABSENT", version |-> 0, text |-> Blank]

NoHand == [op |-> "IDLE", doc |-> None, version |-> 0, text |-> Blank]

Live(d) == doc[d].state = "LIVE"

Standing == {d \in Slots : Live(d)}

Init ==
    /\ kind \in Kinds
    /\ doc = [d \in Slots |-> NoDoc]
    /\ edits = 0
    /\ hand = [w \in Desks |-> NoHand]
    /\ answered = {}
    /\ past = [d \in Slots |-> <<>>]

-----------------------------------------------------------------------------
\* Requests arrive: what a use-case reads before it writes

\* None of its key is there, or the use-case does not look.
ToWrite(w, k) ==
    /\ kind = k
    /\ hand[w] = NoHand
    /\ k.keyed => Standing = {}
    /\ hand' = [hand EXCEPT ![w].op = "WRITE"]
    /\ UNCHANGED <<kind, doc, edits, answered, past>>

Read(w, op, d, k) ==
    /\ kind = k
    /\ hand[w] = NoHand
    /\ Live(d)
    /\ hand' = [hand EXCEPT ![w] = [op |-> op, doc |-> d, version |-> doc[d].version,
                                    text |-> doc[d].text]]
    /\ UNCHANGED <<kind, doc, edits, answered, past>>

PostAnnouncement(w) == ToWrite(w, Announcement)

EditAnnouncement(w, d) == Read(w, "EDIT", d, Announcement)

DeleteAnnouncement(w, d) == Read(w, "REMOVE", d, Announcement)

PostFaq(w) == ToWrite(w, Faq)

EditFaq(w, d) == Read(w, "EDIT", d, Faq)

DeleteFaq(w, d) == Read(w, "REMOVE", d, Faq)

\* Creates the questionnaire, or replaces the questions of the one there is.
DefineQuestionnaire(w) ==
    ToWrite(w, Questionnaire) \/ \E d \in Slots : Read(w, "EDIT", d, Questionnaire)

\* One review for a placement.
SubmitReview(w) == ToWrite(w, Review)

ReviseReview(w, d) == Read(w, "EDIT", d, Review)

DeleteReview(w, d) == Read(w, "REMOVE", d, Review)

SubmitReport(w) == ToWrite(w, Report)

\* A report that has its verdict is refused.
ResolveReport(w, d) ==
    /\ doc[d].version = FirstVersion
    /\ Read(w, "EDIT", d, Report)

\* An application reads the questionnaire before its transaction.
BeginAnswer(w, d) == Read(w, "ANSWER", d, Questionnaire)

-----------------------------------------------------------------------------
\* Their transactions commit

\* The unique index refuses a second one of the key.
Write(w, d) ==
    /\ hand[w].op = "WRITE"
    /\ doc[d].state = "ABSENT"
    /\ kind.keyed => Standing = {}
    /\ edits < MaxEdits
    /\ edits' = edits + 1
    /\ doc' = [doc EXCEPT ![d] = [state |-> "LIVE", version |-> FirstVersion,
                                  text |-> edits + 1]]
    /\ past' = [past EXCEPT ![d] = <<[text |-> edits + 1, over |-> Blank]>>]
    /\ hand' = [hand EXCEPT ![w] = NoHand]
    /\ UNCHANGED <<kind, answered>>

MatchesUnversioned(w) == TRUE

\* The document is there under the version that was read.
Matches(w) == Live(hand[w].doc) /\ doc[hand[w].doc].version = hand[w].version

\* A verdict leaves the reporter's text alone.
Save(w) ==
    LET d == hand[w].doc IN
    /\ hand[w].op = "EDIT"
    /\ Matches(w)
    /\ edits < MaxEdits
    /\ edits' = edits + 1
    /\ doc' = [doc EXCEPT ![d].version = @ + 1,
                          ![d].text = IF kind.once THEN @ ELSE edits + 1]
    /\ past' = [past EXCEPT ![d] = Append(@, [text |-> edits + 1,
                                              over |-> hand[w].text])]
    /\ hand' = [hand EXCEPT ![w] = NoHand]
    /\ UNCHANGED <<kind, answered>>

\* Deleted by its identity, whatever it has become.
CommitRemove(w) ==
    /\ hand[w].op = "REMOVE"
    /\ doc' = [doc EXCEPT ![hand[w].doc].state = "GONE"]
    /\ hand' = [hand EXCEPT ![w] = NoHand]
    /\ UNCHANGED <<kind, edits, answered, past>>

\* The erasure blanks the text and leaves the version.
EraseText(d) ==
    /\ kind.erasable
    /\ Live(d)
    /\ doc' = [doc EXCEPT ![d].text = Blank]
    /\ UNCHANGED <<kind, edits, hand, answered, past>>

\* Answers fit the questions that were read, and keep their version.
Answer(w) ==
    /\ hand[w].op = "ANSWER"
    /\ answered' = answered \cup {<<hand[w].version, hand[w].text>>}
    /\ hand' = [hand EXCEPT ![w] = NoHand]
    /\ UNCHANGED <<kind, doc, edits, past>>

\* An error, a stale version, a duplicate or a crash.
Abort(w) ==
    /\ hand[w] # NoHand
    /\ hand' = [hand EXCEPT ![w] = NoHand]
    /\ UNCHANGED <<kind, doc, edits, answered, past>>

-----------------------------------------------------------------------------
BeginStep(w) ==
    \/ PostAnnouncement(w) \/ PostFaq(w) \/ DefineQuestionnaire(w)
    \/ SubmitReview(w) \/ SubmitReport(w)
    \/ \E d \in Slots :
          \/ EditAnnouncement(w, d) \/ DeleteAnnouncement(w, d)
          \/ EditFaq(w, d) \/ DeleteFaq(w, d)
          \/ ReviseReview(w, d) \/ DeleteReview(w, d)
          \/ ResolveReport(w, d) \/ BeginAnswer(w, d)

CommitStep(w) ==
    \/ \E d \in Slots : Write(w, d)
    \/ Save(w) \/ CommitRemove(w) \/ Answer(w) \/ Abort(w)

Next ==
    \/ \E w \in Desks : BeginStep(w) \/ CommitStep(w)
    \/ \E d \in Slots : EraseText(d)

Spec == Init /\ [][Next]_editorialVars

-----------------------------------------------------------------------------
\* Properties

\* Documents and requests have their shape.
TypeOK ==
    /\ kind \in Kinds
    /\ doc \in [Slots -> [state : {"ABSENT", "LIVE", "GONE"},
                          version : 0..MaxEdits, text : 0..MaxEdits]]
    /\ edits \in 0..MaxEdits
    /\ hand \in [Desks -> [op : {"IDLE", "WRITE", "EDIT", "REMOVE", "ANSWER"},
                           doc : Slots \cup {None}, version : 0..MaxEdits,
                           text : 0..MaxEdits]]
    /\ answered \subseteq (1..MaxEdits) \X (1..MaxEdits)

\* The versions of d after its first.
Later(d) == 2..Len(past[d])

\* A version stands for one text.  Every edit was made by somebody who had
\* read the edit before it, unless an erasure came between; a report has one
\* verdict; and "later edits never reinterpret a past submission": the version
\* an application keeps is that of the questions its answers were held
\* against, although the questionnaire is replaced meanwhile or defined twice
\* at once.
VersionNamesQuestions ==
    /\ \A d \in Slots :
          /\ Live(d) => Len(past[d]) = doc[d].version - FirstVersion + 1
          /\ ~kind.once => \A n \in Later(d) :
                \/ past[d][n].over = past[d][n - 1].text
                \/ kind.erasable /\ past[d][n].over = Blank
          /\ kind.once => Cardinality(Later(d)) <= 1
    /\ \A a \in answered : \E d \in Slots :
          /\ a[1] \in DOMAIN past[d]
          /\ past[d][a[1]].text = a[2]
          /\ \A e \in Slots : a[1] \in DOMAIN past[e] => e = d
=============================================================================
