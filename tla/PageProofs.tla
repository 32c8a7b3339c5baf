----------------------------- MODULE PageProofs -----------------------------
(***************************************************************************)
(* Proofs about the page, for any number of Channels, texts and requests   *)
(* under way.  DialogSound is what the transfer relies on in every state:  *)
(* a choice is one that the operator has made, and an open dialog shows    *)
(* the text that it would send.                                            *)
(***************************************************************************)
EXTENDS Page, TLAPS

Lists == [ok : {TRUE}, channels : SUBSET Channels]
Results == [ok : BOOLEAN]
TextResults == [ok : BOOLEAN, code : {"ok", "TIMEOUT", "FAILED"}]
Requests == [kind : Kinds \cup {None}, arg : Channels \cup {None, "open", "again"},
             answer : {None} \cup Lists \cup Results \cup TextResults]

Transfers == [text : Texts, source : Channels]
Dialogs == [open : BOOLEAN, listed : SUBSET Channels, options : SUBSET Channels,
            choice : Channels \cup {None}, chosen : BOOLEAN, enabled : BOOLEAN,
            preview : Texts \cup {None}]

PageTypes ==
  /\ visible \in SUBSET Channels
  /\ request \in [Slots -> Requests]
  /\ selected \in Channels \cup {None}
  /\ transfer \in Transfers \cup {None} /\ dialog \in Dialogs

\* A list of Channels is the answer to those who have asked for one, and what is
\* to be created is a Channel.
RequestsSound ==
  \A s \in Slots :
    /\ Is(s, "targets") /\ Answered(s) /\ request[s].answer.ok => request[s].answer \in Lists
    /\ Is(s, "create") => request[s].arg \in Channels

DialogSound ==
  /\ dialog.choice # None => dialog.chosen
  /\ dialog.open /\ transfer # None => dialog.preview = transfer.text

PageInv == PageTypes /\ RequestsSound /\ DialogSound

\* The page starts with nothing listed, selected, or asked (app.js, init).
THEOREM PageInitial == Init => PageInv
<1> SUFFICES ASSUME Init PROVE PageInv
  OBVIOUS
<1>1. PageTypes
  BY DEF Init, PageTypes, NoRequest, NoDialog, Requests, Dialogs
<1>2. RequestsSound
  BY PageNone DEF Init, RequestsSound, NoRequest, Is, Answered, Kinds
<1>3. DialogSound
  BY DEF Init, DialogSound, NoDialog
<1> QED BY <1>1, <1>2, <1>3 DEF PageInv

-----------------------------------------------------------------------------
(* What happens to the requests.                                           *)

\* The requests stay well-formed and no text is sent.
Quiet ==
  /\ request' \in [Slots -> Requests] /\ RequestsSound'
  /\ \A s \in Slots : request'[s].kind = "text" => request[s].kind = "text"

LEMMA SameQuiet == ASSUME PageInv, request' = request PROVE Quiet
BY DEF PageInv, PageTypes, RequestsSound, Is, Answered, Quiet

\* A request that is made.
LEMMA AskTypes ==
  ASSUME PageInv, NEW k \in Kinds, NEW a \in Channels \cup {None, "open", "again"},
         k = "create" => a \in Channels, Ask(k, a)
  PROVE  request' \in [Slots -> Requests] /\ RequestsSound'
<1>1. Asked(k, a) \in Requests
  BY DEF Asked, Requests
<1>2. PICK s \in Slots : request' = [request EXCEPT ![s] = Asked(k, a)]
  BY DEF Ask
<1> QED BY <1>1, <1>2 DEF PageInv, PageTypes, RequestsSound, Is, Answered, Asked

\* Requests that carry no text of the dialog.
LEMMA AskQuiet ==
  ASSUME PageInv, NEW k \in Kinds \ {"text"}, NEW a \in Channels \cup {None, "open", "again"},
         k = "create" => a \in Channels, Ask(k, a)
  PROVE  Quiet
<1>1. PICK s \in Slots : request' = [request EXCEPT ![s] = Asked(k, a)]
  BY DEF Ask
<1> QED BY <1>1, AskTypes DEF PageInv, PageTypes, Quiet, Asked

LEMMA ThenQuiet ==
  ASSUME PageInv, NEW s \in Slots, NEW k \in Kinds \ {"text"},
         NEW a \in Channels \cup {None, "open", "again"}, k = "create" => a \in Channels, Then(s, k, a)
  PROVE  Quiet
<1>1. Asked(k, a) \in Requests
  BY DEF Asked, Requests
<1> QED BY <1>1 DEF PageInv, PageTypes, RequestsSound, Is, Answered, Then, Asked, Quiet

LEMMA DoneQuiet == ASSUME PageInv, NEW s \in Slots, Done(s) PROVE Quiet
<1>1. NoRequest \in Requests
  BY DEF NoRequest, Requests
<1> QED BY <1>1, PageNone DEF PageInv, PageTypes, RequestsSound, Is, Answered, Done, NoRequest, Quiet, Kinds

LEMMA AnswerQuiet ==
  ASSUME PageInv, NEW s \in Slots, NEW a \in Lists \cup Results \cup TextResults,
         Is(s, "targets") /\ a.ok => a \in Lists, Answer(s, a)
  PROVE  Quiet
<1>1. /\ request' \in [Slots -> Requests]
      /\ \A t \in Slots : request'[t] = IF t = s THEN [request[s] EXCEPT !.answer = a] ELSE request[t]
  BY DEF PageInv, PageTypes, Requests, Answer
<1>2. request'[s].kind = request[s].kind /\ request'[s].arg = request[s].arg /\ request'[s].answer = a
  BY <1>1 DEF PageInv, PageTypes, Requests
<1> QED BY <1>1, <1>2 DEF PageInv, RequestsSound, Is, Answered, Quiet

LEMMA ServesQuiet == ASSUME PageInv, NEW s \in Slots, Serves(s) PROVE Quiet
<1>1. CASE ServesList(s)
  <2>1. Listed \in Lists
    BY DEF PageInv, PageTypes, Listed, Lists
  <2> QED BY <1>1, <2>1, AnswerQuiet DEF ServesList
<1>2. CASE ServesText(s)
  <2>1. PICK code \in {"ok", "TIMEOUT", "FAILED"} : Answer(s, [ok |-> code = "ok", code |-> code])
    BY <1>2 DEF ServesText
  <2>2. [ok |-> code = "ok", code |-> code] \in TextResults
    BY DEF TextResults
  <2> QED BY <1>2, <2>1, <2>2, AnswerQuiet DEF ServesText, Is
<1>3. CASE ServesKill(s)
  <2>1. [ok |-> TRUE] \in Results
    BY DEF Results
  <2> QED BY <1>3, <2>1, AnswerQuiet DEF ServesKill, Is
<1>4. CASE ServesCreate(s)
  <2>1. [ok |-> TRUE] \in Results
    BY DEF Results
  <2> QED BY <1>4, <2>1, AnswerQuiet DEF ServesCreate, Is
<1>5. CASE Refuses(s)
  <2>1. [ok |-> FALSE] \in Results /\ [ok |-> FALSE].ok = FALSE
    BY DEF Results
  <2> QED BY <1>5, <2>1, AnswerQuiet DEF Refuses
<1> QED BY <1>1, <1>2, <1>3, <1>4, <1>5 DEF Serves

-----------------------------------------------------------------------------
(* What happens to the dialog.                                             *)

DialogOK == transfer \in Transfers \cup {None} /\ dialog \in Dialogs /\ DialogSound

\* The preview shows the text that would be sent, and leaves the choice alone.
LEMMA PreviewedOK ==
  ASSUME transfer \in Transfers \cup {None}, NEW d \in Dialogs, d.choice # None => d.chosen
  PROVE  /\ Previewed(transfer, d) \in Dialogs
         /\ transfer # None => Previewed(transfer, d).preview = transfer.text
         /\ Previewed(transfer, d).choice = d.choice /\ Previewed(transfer, d).chosen = d.chosen
         /\ Previewed(transfer, d).open = d.open
BY DEF Transfers, Dialogs, Previewed, Validates

\* A dialog whose targets are built anew has no choice.
LEMMA TargetsOK == ASSUME PageInv, NEW s \in Slots, Targets(s) PROVE DialogOK'
<1> DEFINE cs == IF request[s].answer.ok THEN request[s].answer.channels ELSE {}
           d == Rebuilt(transfer, dialog, cs)
<1>1. cs \in SUBSET Channels
  BY DEF PageInv, RequestsSound, Targets, Lists
<1>2. d \in Dialogs /\ d.choice = None /\ d.open = dialog.open /\ d.preview = dialog.preview
  BY <1>1 DEF PageInv, PageTypes, Dialogs, Rebuilt
<1>3. transfer' = transfer /\ transfer \in Transfers \cup {None}
  BY DEF PageInv, PageTypes, Targets
<1>4. CASE request[s].arg = "open"
  <2>1. dialog' = [Previewed(transfer, d) EXCEPT !.open = TRUE]
    BY <1>4 DEF Targets
  <2> HIDE DEF d
  <2>2. /\ Previewed(transfer, d) \in Dialogs
        /\ transfer # None => Previewed(transfer, d).preview = transfer.text
        /\ Previewed(transfer, d).choice = None
    BY <1>2, <1>3, PreviewedOK
  <2> QED BY <1>3, <2>1, <2>2 DEF DialogOK, DialogSound, Dialogs
<1>5. CASE request[s].arg # "open"
  <2>1. dialog' = [d EXCEPT !.enabled = FALSE]
    BY <1>5 DEF Targets
  <2> HIDE DEF d
  <2> QED BY <1>2, <1>3, <2>1 DEF PageInv, DialogOK, DialogSound, Dialogs
<1> QED BY <1>4, <1>5

LEMMA ChooseOK == ASSUME PageInv, NEW c \in Channels \cup {None}, Choose(c) PROVE DialogOK'
<1> DEFINE d == [dialog EXCEPT !.choice = c, !.chosen = TRUE]
<1>1. d \in Dialogs /\ d.chosen
  BY DEF PageInv, PageTypes, Dialogs
<1>2. dialog' = Previewed(transfer, d) /\ transfer' = transfer /\ transfer \in Transfers \cup {None}
  BY DEF PageInv, PageTypes, Choose
<1> HIDE DEF d
<1> QED BY <1>1, <1>2, PreviewedOK DEF DialogOK, DialogSound

LEMMA ToggleOK == ASSUME PageInv, ToggleSubmit PROVE DialogOK'
<1>1. dialog' = Previewed(transfer, dialog) /\ transfer' = transfer
  BY DEF ToggleSubmit
<1> QED BY <1>1, PreviewedOK DEF PageInv, PageTypes, DialogOK, DialogSound

LEMMA ClosedOK == ASSUME PageInv, Closed PROVE DialogOK'
BY DEF PageInv, PageTypes, Closed, DialogOK, DialogSound, Dialogs

\* Nothing but whether it may be confirmed changes.
LEMMA EnabledOK ==
  ASSUME PageInv, NEW b \in BOOLEAN, dialog' = [dialog EXCEPT !.enabled = b], transfer' = transfer
  PROVE  DialogOK'
BY DEF PageInv, PageTypes, DialogOK, DialogSound, Dialogs

LEMMA SameOK == ASSUME PageInv, UNCHANGED transferVars PROVE DialogOK'
BY DEF PageInv, PageTypes, DialogOK, DialogSound, transferVars

\* A dialog that is not open does not promise anything yet.
LEMMA OpenTransferOK == ASSUME PageInv, NEW t \in Texts, OpenTransfer(t) PROVE DialogOK'
BY DEF PageInv, PageTypes, OpenTransfer, DialogOK, DialogSound, Transfers

-----------------------------------------------------------------------------
(* Every action.                                                           *)

Settled == Quiet /\ DialogOK' /\ visible' \in SUBSET Channels /\ selected' \in Channels \cup {None}

LEMMA SettledKeeps == ASSUME Settled PROVE PageInv'
BY DEF Settled, Quiet, DialogOK, PageInv, PageTypes

\* Nothing but a confirmation sends the text of the dialog.
LEMMA OperatorSettles ==
  ASSUME PageInv, Operator, ~ConfirmTransfer
  PROVE  Settled
<1>1. visible' \in SUBSET Channels
  BY DEF PageInv, PageTypes, Operator, Select, CreateSession, Deselect, KillSession, OpenTransfer, Choose,
         ToggleSubmit, CancelTransfer, worldVars
<1>2. ASSUME NEW c \in Channels, Select(c) PROVE Settled
  BY <1>1, <1>2, SameQuiet, SameOK DEF Select, SetSelected, Settled
<1>3. ASSUME NEW c \in Channels, CreateSession(c) PROVE Settled
  <2>1. Quiet
    BY <1>3, AskQuiet DEF CreateSession, Kinds
  <2> QED BY <1>1, <1>3, <2>1, SameOK DEF PageInv, PageTypes, CreateSession, Settled
<1>4. CASE Deselect
  BY <1>1, <1>4, SameQuiet, SameOK DEF Deselect, SetSelected, Settled
<1>5. CASE KillSession
  <2>1. Quiet
    BY <1>5, AskQuiet DEF PageInv, PageTypes, KillSession, Kinds
  <2> QED BY <1>1, <1>5, <2>1, SameOK DEF PageInv, PageTypes, KillSession, Settled
<1>6. ASSUME NEW t \in Texts, OpenTransfer(t) PROVE Settled
  <2>1. Quiet
    BY <1>6, AskQuiet DEF OpenTransfer, Kinds
  <2> QED BY <1>1, <1>6, <2>1, OpenTransferOK DEF PageInv, PageTypes, OpenTransfer, pageVars, Settled
<1>7. ASSUME NEW c \in Channels \cup {None}, Choose(c) PROVE Settled
  BY <1>1, <1>7, SameQuiet, ChooseOK DEF PageInv, PageTypes, Choose, pageVars, Settled
<1>8. CASE ToggleSubmit
  BY <1>1, <1>8, SameQuiet, ToggleOK DEF PageInv, PageTypes, ToggleSubmit, pageVars, Settled
<1>9. CASE CancelTransfer
  BY <1>1, <1>9, SameQuiet, ClosedOK DEF PageInv, PageTypes, CancelTransfer, pageVars, Settled
<1> QED BY <1>2, <1>3, <1>4, <1>5, <1>6, <1>7, <1>8, <1>9 DEF Operator

LEMMA ServesSettles == ASSUME PageInv, NEW s \in Slots, Serves(s) PROVE Settled
<1>1. Quiet
  BY ServesQuiet
<1>2. DialogOK' /\ selected' = selected
  BY SameOK DEF Serves, ServesList, ServesText, ServesKill, ServesCreate, Refuses, pageVars
<1>3. visible' \in SUBSET Channels
  <2>1. CASE ServesKill(s)
    BY <2>1 DEF PageInv, PageTypes, ServesKill
  <2>2. CASE ServesCreate(s)
    BY <2>2 DEF ServesCreate, PageInv, PageTypes, RequestsSound
  <2>3. CASE ServesList(s) \/ ServesText(s) \/ Refuses(s)
    BY <2>3 DEF PageInv, PageTypes, ServesList, ServesText, Refuses, worldVars
  <2> QED BY <2>1, <2>2, <2>3 DEF Serves
<1> QED BY <1>1, <1>2, <1>3 DEF PageInv, PageTypes, Settled

LEMMA TransferredSettles == ASSUME PageInv, NEW s \in Slots, Transferred(s) PROVE Settled
<1>1. visible' = visible /\ selected' = selected
  BY DEF Transferred, worldVars, pageVars
<1>2. CASE Closed /\ Done(s)
  BY <1>1, <1>2, ClosedOK, DoneQuiet DEF PageInv, PageTypes, Settled
<1>3. CASE dialog' = [dialog EXCEPT !.enabled = TRUE] /\ Done(s) /\ UNCHANGED transfer
  <2>1. DialogOK'
    BY <1>3, EnabledOK
  <2> QED BY <1>1, <1>3, <2>1, DoneQuiet DEF PageInv, PageTypes, Settled
<1>4. CASE Then(s, "targets", "again") /\ UNCHANGED transferVars
  <2>1. Quiet
    BY <1>4, ThenQuiet DEF Kinds
  <2> QED BY <1>1, <1>4, <2>1, SameOK DEF PageInv, PageTypes, Settled
<1> QED BY <1>2, <1>3, <1>4 DEF Transferred

LEMMA ContinuesSettles == ASSUME PageInv, NEW s \in Slots, Continues(s) PROVE Settled
<1>1. CASE Loaded(s)
  <2>1. selected' \in Channels \cup {None}
    BY <1>1 DEF PageInv, PageTypes, Loaded, RenderChannels, SetSelected
  <2> QED BY <1>1, <2>1, DoneQuiet, SameOK DEF PageInv, PageTypes, Loaded, worldVars, Settled
<1>2. CASE Created(s)
  <2>1. Quiet
    BY <1>2, DoneQuiet, ThenQuiet DEF Created, Kinds
  <2> QED BY <1>2, <2>1, SameOK DEF PageInv, PageTypes, Created, worldVars, Settled
<1>3. CASE Killed(s)
  <2>1. Quiet
    BY <1>3, DoneQuiet, ThenQuiet DEF Killed, Kinds
  <2> QED BY <1>3, <2>1, SameOK DEF PageInv, PageTypes, Killed, SetSelected, worldVars, Settled
<1>4. CASE Targets(s)
  BY <1>4, DoneQuiet, TargetsOK DEF PageInv, PageTypes, Targets, worldVars, pageVars, Settled
<1>5. CASE Transferred(s)
  BY <1>5, TransferredSettles
<1> QED BY <1>1, <1>2, <1>3, <1>4, <1>5 DEF Continues

LEMMA LoadChannelsSettles == ASSUME PageInv, LoadChannels PROVE Settled
<1>1. Quiet
  BY AskQuiet DEF LoadChannels, Kinds
<1> QED BY <1>1, SameOK DEF PageInv, PageTypes, LoadChannels, worldVars, pageVars, Settled

LEMMA WorldChangesSettles == ASSUME PageInv, NEW c \in Channels, WorldChanges(c) PROVE Settled
<1>1. visible' \in SUBSET Channels
  BY DEF PageInv, PageTypes, WorldChanges
<1> QED BY <1>1, SameQuiet, SameOK DEF PageInv, PageTypes, WorldChanges, pageVars, Settled

LEMMA StutterSettles == ASSUME PageInv, UNCHANGED vars PROVE Settled
BY SameQuiet, SameOK DEF PageInv, PageTypes, vars, worldVars, pageVars, Settled

\* Only a confirmation does not settle: it sends a text.
LEMMA StepSettles == ASSUME PageInv, [Next]_vars, ~ConfirmTransfer PROVE Settled
<1>1. CASE Operator
  BY <1>1, OperatorSettles
<1>2. CASE LoadChannels
  BY <1>2, LoadChannelsSettles
<1>3. ASSUME NEW s \in Slots, Serves(s) \/ Continues(s) PROVE Settled
  BY <1>3, ServesSettles, ContinuesSettles
<1>4. ASSUME NEW c \in Channels, WorldChanges(c) PROVE Settled
  BY <1>4, WorldChangesSettles
<1>5. CASE UNCHANGED vars
  BY <1>5, StutterSettles
<1> QED BY <1>1, <1>2, <1>3, <1>4, <1>5 DEF Next

\* A confirmation sends the text that is shown to the target that was chosen.
LEMMA ConfirmKeeps == ASSUME PageInv, ConfirmTransfer PROVE PageInv'
<1>1. request' \in [Slots -> Requests] /\ RequestsSound'
  BY AskTypes DEF PageInv, PageTypes, Dialogs, ConfirmTransfer, Kinds
<1>2. DialogOK'
  BY EnabledOK DEF ConfirmTransfer
<1> QED BY <1>1, <1>2 DEF PageInv, PageTypes, ConfirmTransfer, worldVars, pageVars, DialogOK

\* What the transfer relies on is kept by every step.
THEOREM PageInductive == PageInv /\ [Next]_vars => PageInv'
BY StepSettles, SettledKeeps, ConfirmKeeps

-----------------------------------------------------------------------------
(* What the page promises.                                                 *)

\* The step that sends a text, of those that TransferAsConfirmed is about.
TextSent(s) == request'[s].kind = "text" /\ request[s].kind # "text"
SentAsConfirmed(s) ==
  /\ dialog.open /\ dialog.chosen /\ dialog.preview = transfer.text
  /\ request'[s].arg \in dialog.listed \ {transfer.source}

LEMMA ConfirmSends ==
  ASSUME PageInv, ConfirmTransfer, NEW s \in Slots, TextSent(s)
  PROVE  SentAsConfirmed(s)
<1>1. PICK t \in Slots : request' = [request EXCEPT ![t] = Asked("text", dialog.choice)]
  BY DEF ConfirmTransfer, Ask
<1>2. s = t /\ request'[s].arg = dialog.choice
  BY <1>1 DEF PageInv, PageTypes, TextSent, Asked
<1>3. dialog.open /\ transfer # None /\ dialog.choice \in dialog.listed \ {transfer.source}
  BY DEF ConfirmTransfer, Validates
<1>4. dialog.choice # None
  BY <1>3, PageNone DEF PageInv, PageTypes, Dialogs
<1> QED BY <1>2, <1>3, <1>4 DEF PageInv, DialogSound, SentAsConfirmed

\* The dialog sends what it shows where the operator chose (confirmTransfer),
\* whatever answers come meanwhile.
THEOREM TransferSafe == Spec => TransferAsConfirmed
<1>1. ASSUME PageInv, [Next]_vars PROVE [\A s \in Slots : TextSent(s) => SentAsConfirmed(s)]_vars
  <2>1. CASE ConfirmTransfer
    BY <1>1, <2>1, ConfirmSends
  <2>2. CASE ~ConfirmTransfer
    BY <1>1, <2>2, StepSettles DEF Settled, Quiet, TextSent
  <2> QED BY <2>1, <2>2
<1> QED BY <1>1, PageInitial, PageInductive, PTL DEF Spec, TransferAsConfirmed, TextSent, SentAsConfirmed

\* Rendering a list drops a selection that is not in it (renderChannels), and
\* only what is listed is selected.
THEOREM SelectionListed == Spec => []SelectedListed
<1>1. Init => SelectedListed
  BY DEF Init, SelectedListed
<1>2. ASSUME SelectedListed, [Next]_vars PROVE SelectedListed'
  <2>1. ASSUME UNCHANGED <<list, unavailable, selected>> PROVE SelectedListed'
    BY <1>2, <2>1 DEF SelectedListed
  <2>2. ASSUME NEW c \in Channels, Select(c) PROVE SelectedListed'
    BY <2>2 DEF Select, SetSelected, SelectedListed
  <2>3. ASSUME NEW s \in Slots, Loaded(s) PROVE SelectedListed'
    BY <2>3 DEF Loaded, RenderChannels, SetSelected, SelectedListed
  <2>4. ASSUME NEW s \in Slots, Killed(s) PROVE SelectedListed'
    BY <1>2, <2>4 DEF Killed, SetSelected, SelectedListed
  <2>5. CASE Deselect
    BY <2>5 DEF Deselect, SetSelected, SelectedListed
  <2>6. ASSUME Operator, ~\E c \in Channels : Select(c), ~Deselect PROVE UNCHANGED <<list, unavailable, selected>>
    BY <2>6 DEF Operator, CreateSession, KillSession, OpenTransfer, Choose, ToggleSubmit,
       CancelTransfer, ConfirmTransfer, pageVars
  <2>7. ASSUME NEW s \in Slots, Serves(s) PROVE UNCHANGED <<list, unavailable, selected>>
    BY <2>7 DEF Serves, ServesList, ServesText, ServesKill, ServesCreate, Refuses, pageVars
  <2>8. ASSUME NEW s \in Slots, Created(s) \/ Targets(s) \/ Transferred(s) PROVE UNCHANGED <<list, unavailable, selected>>
    BY <2>8 DEF Created, Targets, Transferred, pageVars
  <2>9. CASE Operator
    BY <2>1, <2>2, <2>5, <2>6, <2>9
  <2>10. CASE \E s \in Slots : Serves(s) \/ Continues(s)
    BY <2>1, <2>3, <2>4, <2>7, <2>8, <2>10 DEF Continues
  <2>11. CASE LoadChannels \/ (\E c \in Channels : WorldChanges(c)) \/ UNCHANGED vars
    BY <2>1, <2>11 DEF LoadChannels, WorldChanges, pageVars, vars
  <2> QED BY <1>2, <2>9, <2>10, <2>11 DEF Next
<1> QED BY <1>1, <1>2, PTL DEF Spec
=============================================================================
