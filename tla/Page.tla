-------------------------------- MODULE Page --------------------------------
(***************************************************************************)
(* One page of the Console (console/public/app.js): the list of Channels,  *)
(* the one that is selected, sessions that are created and killed, and the *)
(* dialog that transfers text to another Channel (with                     *)
(* console/public/transfer.js).  Each of its asynchronous functions asks   *)
(* the server and continues with the answer; answers come in any order,    *)
(* and the operator goes on meanwhile.  The composer is the matter of      *)
(* Console, the history that is shown that of Mirror.                      *)
(*                                                                         *)
(* A Channel stands for its session as well.  The open dialog covers the   *)
(* rest of the page: the operator is taken to use what he sees.            *)
(***************************************************************************)
EXTENDS Naturals, FiniteSets

CONSTANTS
  Channels,
  Texts,       \* entries, or selections in them, that may be transferred
  Oversize,    \* those over TRANSFER_MAX_BYTES with the header
  Slots,       \* bound of the model: requests under way at a time
  MaxChanges,  \* bound of the model: Channels that come and go by themselves
  None

ASSUME PageSets == IsFiniteSet(Channels) /\ IsFiniteSet(Slots) /\ Oversize \subseteq Texts
Kinds == {"list", "targets", "text", "kill", "create"}
ASSUME PageNone == None \notin Channels \cup Texts \cup Kinds
ASSUME PageBound == MaxChanges \in Nat

VARIABLES
  visible,     \* the Channels that the server lists
  changes,     \* how often they have changed by themselves
  request,     \* the requests under way, each with its answer once it has one
  list,        \* the Channels that the page lists
  unavailable, \* it says instead that the list is unavailable: errorEl is shown
  selected,    \* selectedChannel
  killable,    \* the kill button is enabled
  creatable,   \* the create button is enabled
  transfer,    \* transferState: the text and where it is from, or None
  dialog       \* what the transfer dialog shows and offers

worldVars == <<visible, changes>>
pageVars == <<list, unavailable, selected, killable, creatable>>
transferVars == <<transfer, dialog>>
vars == <<worldVars, request, pageVars, transferVars>>

NoRequest == [kind |-> None, arg |-> None, answer |-> None]
NoDialog == [open |-> FALSE, listed |-> {}, options |-> {}, choice |-> None, chosen |-> FALSE,
             enabled |-> FALSE, preview |-> None]

Init ==
  /\ visible \in SUBSET Channels /\ changes = 0
  /\ request = [s \in Slots |-> NoRequest]
  /\ list = {} /\ unavailable = FALSE /\ selected = None
  /\ killable = FALSE /\ creatable = TRUE
  /\ transfer = None /\ dialog = NoDialog

-----------------------------------------------------------------------------
(* Requests.  Bound: one for each slot.                                    *)

Asked(kind, arg) == [kind |-> kind, arg |-> arg, answer |-> None]

\* A request is made, whose answer some continuation awaits.
Ask(kind, arg) ==
  \E s \in Slots : request[s] = NoRequest /\ request' = [request EXCEPT ![s] = Asked(kind, arg)]

\* The one in s is over, and with some continuations another is made.
Done(s) == request' = [request EXCEPT ![s] = NoRequest]
Then(s, kind, arg) == request' = [request EXCEPT ![s] = Asked(kind, arg)]

Is(s, kind) == request[s].kind = kind
Answered(s) == request[s].answer # None

\* The server has answered, or there is none to be had.
Answer(s, a) == request' = [request EXCEPT ![s].answer = a]
Serving(s) == request[s] # NoRequest /\ ~Answered(s)

\* listChannels: the panes of allowed sessions, one Channel each.
Listed == [ok |-> TRUE, channels |-> visible]

ServesList(s) ==
  /\ Serving(s) /\ (Is(s, "list") \/ Is(s, "targets"))
  /\ Answer(s, Listed)
  /\ UNCHANGED <<worldVars, pageVars, transferVars>>

\* A text that is sent arrives, perhaps, or does not; what is not there cannot
\* take it.
ServesText(s) ==
  /\ Serving(s) /\ Is(s, "text")
  /\ \E code \in {"TIMEOUT", "FAILED"} \cup (IF request[s].arg \in visible THEN {"ok"} ELSE {}) :
       Answer(s, [ok |-> code = "ok", code |-> code])
  /\ UNCHANGED <<worldVars, pageVars, transferVars>>

ServesKill(s) ==
  /\ Serving(s) /\ Is(s, "kill") /\ request[s].arg \in visible
  /\ Answer(s, [ok |-> TRUE])
  /\ visible' = visible \ {request[s].arg}
  /\ UNCHANGED <<changes, pageVars, transferVars>>

ServesCreate(s) ==
  /\ Serving(s) /\ Is(s, "create") /\ request[s].arg \notin visible
  /\ Answer(s, [ok |-> TRUE])
  /\ visible' = visible \cup {request[s].arg}
  /\ UNCHANGED <<changes, pageVars, transferVars>>

Refuses(s) ==
  /\ Serving(s) /\ ~Is(s, "text")
  /\ Answer(s, [ok |-> FALSE])
  /\ UNCHANGED <<worldVars, pageVars, transferVars>>

\* Sessions come and go by themselves.  Bound: MaxChanges times.
WorldChanges(c) ==
  /\ changes < MaxChanges /\ changes' = changes + 1
  /\ visible' = IF c \in visible THEN visible \ {c} ELSE visible \cup {c}
  /\ UNCHANGED <<request, pageVars, transferVars>>

-----------------------------------------------------------------------------
(* The list and the selection.                                             *)

\* setSelected, with updateLifecycleState
SetSelected(c) == selected' = c /\ killable' = (c # None)

Select(c) ==
  /\ ~dialog.open /\ c \in list
  /\ SetSelected(c)
  /\ UNCHANGED <<worldVars, request, list, unavailable, creatable, transferVars>>

Deselect ==
  /\ ~dialog.open /\ selected # None
  /\ SetSelected(None)
  /\ UNCHANGED <<worldVars, request, list, unavailable, creatable, transferVars>>

\* loadChannels, by the interval timer or the refresh button.
LoadChannels ==
  /\ Ask("list", None)
  /\ UNCHANGED <<worldVars, pageVars, transferVars>>

\* Seeded fault of RenderChannels: the selection is left alone.
RenderChannelsOnly(cs) ==
  /\ list' = cs
  /\ UNCHANGED <<selected, killable>>

\* renderChannels: what is no longer listed is no longer selected.
RenderChannels(cs) ==
  /\ list' = cs
  /\ IF selected \notin cs \cup {None} THEN SetSelected(None) ELSE UNCHANGED <<selected, killable>>

\* The second half of loadChannels: an answer, be it empty, is rendered; after an
\* error the page shows that instead of the list, and the selection stays.
Loaded(s) ==
  /\ Is(s, "list") /\ Answered(s)
  /\ unavailable' = ~request[s].answer.ok
  /\ IF request[s].answer.ok THEN RenderChannels(request[s].answer.channels)
     ELSE list' = {} /\ UNCHANGED <<selected, killable>>
  /\ Done(s)
  /\ UNCHANGED <<worldVars, creatable, transferVars>>

-----------------------------------------------------------------------------
(* Sessions.                                                               *)

\* createSession
CreateSession(c) ==
  /\ ~dialog.open /\ creatable
  /\ creatable' = FALSE
  /\ Ask("create", c)
  /\ UNCHANGED <<worldVars, list, unavailable, selected, killable, transferVars>>

Created(s) ==
  /\ Is(s, "create") /\ Answered(s)
  /\ creatable' = TRUE
  /\ IF request[s].answer.ok THEN Then(s, "list", None) ELSE Done(s)
  /\ UNCHANGED <<worldVars, list, unavailable, selected, killable, transferVars>>

\* killSession, confirmed: what is selected goes.
KillSession ==
  /\ ~dialog.open /\ killable /\ selected # None
  /\ killable' = FALSE
  /\ Ask("kill", selected)
  /\ UNCHANGED <<worldVars, list, unavailable, selected, creatable, transferVars>>

\* Its answer ends whatever selection there is.
Killed(s) ==
  /\ Is(s, "kill") /\ Answered(s)
  /\ IF request[s].answer.ok THEN SetSelected(None) /\ Then(s, "list", None)
     ELSE killable' = (selected # None) /\ UNCHANGED selected /\ Done(s)
  /\ UNCHANGED <<worldVars, list, unavailable, creatable, transferVars>>

-----------------------------------------------------------------------------
(* The transfer of text.                                                   *)

\* validateTransfer
Validates(t, d) ==
  t # None /\ t.text \notin Oversize /\ d.choice \in d.listed \ {t.source}

\* renderTransferPreview
Previewed(t, d) ==
  IF t = None THEN d ELSE [d EXCEPT !.preview = t.text, !.enabled = Validates(t, d)]

\* Seeded fault of Rebuilt: a choice that is still offered stays.
RebuiltKeepingChoice(t, d, cs) ==
  LET options == IF t = None THEN cs ELSE cs \ {t.source} IN
  [d EXCEPT !.listed = cs, !.options = options,
            !.choice = IF @ \in options THEN @ ELSE None, !.chosen = FALSE]

\* refreshTransferTargets: nothing is chosen of the new list.
Rebuilt(t, d, cs) ==
  [d EXCEPT !.listed = cs, !.options = IF t = None THEN cs ELSE cs \ {t.source},
            !.choice = None, !.chosen = FALSE]

\* openTransfer
OpenTransfer(text) ==
  /\ ~dialog.open /\ selected # None
  /\ transfer' = [text |-> text, source |-> selected]
  /\ Ask("targets", "open")
  /\ UNCHANGED <<worldVars, pageVars, dialog>>

\* The list of targets has come, for a dialog that opens or one whose choice has
\* proved wrong (invalidateTargetChoice).
Targets(s) ==
  LET cs == IF request[s].answer.ok THEN request[s].answer.channels ELSE {}
      d == Rebuilt(transfer, dialog, cs)
  IN
  /\ Is(s, "targets") /\ Answered(s)
  /\ dialog' = IF request[s].arg = "open" THEN [Previewed(transfer, d) EXCEPT !.open = TRUE]
               ELSE [d EXCEPT !.enabled = FALSE]
  /\ Done(s)
  /\ UNCHANGED <<worldVars, pageVars, transfer>>

\* The operator chooses a target, or changes whether Enter is to be sent.
Choose(c) ==
  /\ dialog.open /\ c \in dialog.options \cup {None} /\ c # dialog.choice
  /\ dialog' = Previewed(transfer, [dialog EXCEPT !.choice = c, !.chosen = TRUE])
  /\ UNCHANGED <<worldVars, request, pageVars, transfer>>

ToggleSubmit ==
  /\ dialog.open
  /\ dialog' = Previewed(transfer, dialog)
  /\ UNCHANGED <<worldVars, request, pageVars, transfer>>

\* closeTransfer
Closed == transfer' = None /\ dialog' = [dialog EXCEPT !.open = FALSE, !.listed = {}]

CancelTransfer == dialog.open /\ Closed /\ UNCHANGED <<worldVars, request, pageVars>>

\* confirmTransfer
ConfirmTransfer ==
  /\ dialog.open /\ transfer # None /\ dialog.enabled
  /\ Validates(transfer, dialog)
  /\ Ask("text", dialog.choice)
  /\ dialog' = [dialog EXCEPT !.enabled = FALSE]
  /\ UNCHANGED <<worldVars, pageVars, transfer>>

\* Its second half: whatever dialog there is now is closed, may be confirmed
\* again after a timeout, or needs another choice.
Transferred(s) ==
  /\ Is(s, "text") /\ Answered(s)
  /\ \/ request[s].answer.ok /\ Closed /\ Done(s)
     \/ /\ request[s].answer.code = "TIMEOUT"
        /\ dialog' = [dialog EXCEPT !.enabled = TRUE]
        /\ Done(s) /\ UNCHANGED transfer
     \/ request[s].answer.code = "FAILED" /\ Then(s, "targets", "again") /\ UNCHANGED transferVars
  /\ UNCHANGED <<worldVars, pageVars>>

-----------------------------------------------------------------------------
Operator ==
  \/ \E c \in Channels : Select(c) \/ CreateSession(c)
  \/ Deselect \/ KillSession
  \/ \E t \in Texts : OpenTransfer(t)
  \/ \E c \in Channels \cup {None} : Choose(c)
  \/ ToggleSubmit \/ CancelTransfer \/ ConfirmTransfer

Serves(s) == ServesList(s) \/ ServesText(s) \/ ServesKill(s) \/ ServesCreate(s) \/ Refuses(s)
Continues(s) == Loaded(s) \/ Created(s) \/ Killed(s) \/ Targets(s) \/ Transferred(s)

Next ==
  \/ Operator \/ LoadChannels
  \/ \E s \in Slots : Serves(s) \/ Continues(s)
  \/ \E c \in Channels : WorldChanges(c)

Spec == Init /\ [][Next]_vars

-----------------------------------------------------------------------------
\* A text is sent only to the target that the operator has chosen from the list
\* of Channels that came last, never to the Channel it is from, and it is the
\* text of the preview: the answers of earlier requests, to open the dialog or to
\* send, may come meanwhile.
TransferAsConfirmed ==
  [][\A s \in Slots : request'[s].kind = "text" /\ request[s].kind # "text" =>
       /\ dialog.open /\ dialog.chosen /\ dialog.preview = transfer.text
       /\ request'[s].arg \in dialog.listed \ {transfer.source}]_vars

\* What is selected is in the list that came last, empty or not, unless the page
\* says that the list could not be had: answers come out of order, and sessions are
\* killed and created meanwhile (renderChannels, loadChannels).
SelectedListed == selected # None /\ ~unavailable => selected \in list
=============================================================================
