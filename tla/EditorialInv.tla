----------------------------- MODULE EditorialInv -----------------------------
(***************************************************************************)
(* The inductive invariant of Editorial.  The history of a document has    *)
(* one text for each version, and what a request has read is the text of   *)
(* the version it has read, or nothing if an erasure came first.           *)
(***************************************************************************)
EXTENDS Editorial

Entry == [text : 1..MaxEdits, over : 0..MaxEdits]

\* What is read of the text t: the erasure leaves nothing.
ReadOf(t) == {t} \cup (IF kind.erasable THEN {Blank} ELSE {})

\* The place of a version in the history.
Place(version) == version - FirstVersion + 1

DocTrue(d) ==
    /\ past[d] \in Seq(Entry)
    /\ doc[d].version <= edits /\ doc[d].text <= edits
    /\ doc[d].state = "ABSENT" => past[d] = <<>>
    /\ doc[d].state # "ABSENT" => /\ doc[d].version >= FirstVersion
                                  /\ Len(past[d]) = Place(doc[d].version)
                                  /\ ~kind.once =>
                                       doc[d].text \in ReadOf(past[d][Len(past[d])].text)
    /\ kind.once => Len(past[d]) <= 2

\* The document a request is about was there, and its version is not older.
HandTrue(t) ==
    t.op \in {"EDIT", "REMOVE", "ANSWER"} =>
        /\ t.doc \in Slots /\ doc[t.doc].state # "ABSENT"
        /\ t.version >= FirstVersion /\ t.version <= doc[t.doc].version
        /\ ~kind.once => t.text \in ReadOf(past[t.doc][Place(t.version)].text)
        /\ t.op = "REMOVE" => kind # Questionnaire
        /\ t.op = "ANSWER" => kind = Questionnaire
        /\ t.op = "EDIT" /\ kind.once => t.version = FirstVersion

\* Questionnaires are never removed, and the key admits one; only they have answers.
OneOfKey ==
    /\ kind # Questionnaire => answered = {}
    /\ kind = Questionnaire =>
         /\ \A d \in Slots : doc[d].state # "GONE"
         /\ \A d, e \in Slots : Live(d) /\ Live(e) => d = e

IInv ==
    /\ TypeOK
    /\ DOMAIN past = Slots
    /\ \A d \in Slots : DocTrue(d)
    /\ \A w \in Desks : HandTrue(hand[w])
    /\ OneOfKey
    /\ VersionNamesQuestions
=============================================================================
