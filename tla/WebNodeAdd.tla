------------------------------- MODULE WebNodeAdd -------------------------------
(***************************************************************************)
(* Adding a node: by a form that tests the node first, whose fields may be *)
(* filled from a text (src/web/src/pages/endpoints/components/             *)
(* add-endpoint-modal.tsx), or by a command that installs the node and     *)
(* registers it with a token (guided-add-modal.tsx).                       *)
(*                                                                         *)
(* ui holds the two forms, net the requests under way, srv the nodes added *)
(* and the tokens given out.  An address is its host; the guided form is   *)
(* the name in it, its other fields being edited and checked alike.        *)
(***************************************************************************)
EXTENDS Naturals, FiniteSets

CONSTANTS Hosts, Names, None

AddAssumption == None \notin Hosts \cup Names /\ Names # {}

VARIABLES ui, net, srv

vars == <<ui, net, srv>>

Maybe(S) == S \cup {None}

EndpointDraft == [url : Maybe(Hosts), ip : Maybe(Hosts), typed : BOOLEAN]
Command == [name : Names, token : Names]
GuidedInstallForm == [name : Names, valid : BOOLEAN]

Page == [modal : {"none", "form", "import", "result", "guided"},
         draft : EndpointDraft, testing : BOOLEAN,
         canAdd : BOOLEAN, guided : GuidedInstallForm,
         command : Command \cup {None}, generating : BOOLEAN]

TypeOK ==
    /\ ui \in Page
    /\ net \in [test : BOOLEAN, token : GuidedInstallForm \cup {None}]
    /\ srv \subseteq Hosts

\* typed: the connection IP was entered by hand, which no code keeps.
NoDraft == [url |-> None, ip |-> None, typed |-> FALSE]
DefaultForm == [name |-> CHOOSE n \in Names : TRUE, valid |-> TRUE]

Init ==
    /\ ui = [modal |-> "none", draft |-> NoDraft, testing |-> FALSE,
             canAdd |-> FALSE, guided |-> DefaultForm, command |-> None,
             generating |-> FALSE]
    /\ net = [test |-> FALSE, token |-> None]
    /\ srv = {}

-----------------------------------------------------------------------------
(* The form, and the text it may be filled from. *)

AddForm == ui.modal = "form"
ImportStep == ui.modal = "import"
ResultModal == ui.modal = "result"

\* The draft outlives the modal; the guided form does not.
Open ==
    /\ ui.modal = "none"
    /\ \/ ui' = [ui EXCEPT !.modal = "form"]
       \/ ui' = [ui EXCEPT !.modal = "guided", !.guided = DefaultForm,
                           !.command = None]
    /\ UNCHANGED <<net, srv>>

HandleModalClose ==
    /\ AddForm \/ ImportStep
    /\ \E m \in {"none", IF AddForm THEN "import" ELSE "form"} :
          ui' = [ui EXCEPT !.modal = m]
    /\ UNCHANGED <<net, srv>>

\* Mutant: the IP is filled in once.
FollowsWhenEmpty(draft) == draft.ip = None

\* The IP follows the address while it is empty or the address's own.
Follows(draft) == draft.ip \in {None, draft.url}

InputUrl(u) ==
    /\ AddForm
    /\ ui' = [ui EXCEPT !.draft.url = u,
                 !.draft.ip = IF Follows(ui.draft) THEN u ELSE @,
                 !.draft.typed = IF Follows(ui.draft) THEN FALSE ELSE @]
    /\ UNCHANGED <<net, srv>>

\* The field is there once there is an address.
InputIp(i) ==
    /\ AddForm /\ ui.draft.url # None
    /\ ui' = [ui EXCEPT !.draft.ip = i, !.draft.typed = TRUE]
    /\ UNCHANGED <<net, srv>>

ParseImportConfig(u) ==
    /\ ImportStep
    /\ ui' = [ui EXCEPT !.modal = "form",
                 !.draft = [url |-> u, ip |-> u, typed |-> FALSE]]
    /\ UNCHANGED <<net, srv>>

\* The fields stay open while the test runs.
TestCompatibility ==
    /\ AddForm /\ ui.draft.url # None /\ ~ui.testing
    /\ ui' = [ui EXCEPT !.testing = TRUE]
    /\ net' = [net EXCEPT !.test = TRUE] /\ UNCHANGED srv

TestReturns ==
    /\ net.test /\ net' = [net EXCEPT !.test = FALSE]
    /\ \/ ui' = [ui EXCEPT !.testing = FALSE]
       \/ \E ok \in BOOLEAN :
             ui' = [ui EXCEPT !.testing = FALSE, !.canAdd = ok,
                              !.modal = "result"]
    /\ UNCHANGED srv

\* Back to the form, if that is still open, and the result is forgotten.
CloseTestResult ==
    /\ ResultModal
    /\ \E m \in {"form", "none"} :
          ui' = [ui EXCEPT !.modal = m, !.canAdd = FALSE]
    /\ UNCHANGED <<net, srv>>

\* handleAddEndpoint keeps an error to itself: the draft is cleared.
AddFromTestResult ==
    /\ ResultModal /\ ui.canAdd
    /\ ui' = [ui EXCEPT !.modal = "none", !.draft = NoDraft, !.canAdd = FALSE]
    /\ srv' \in {srv, srv \cup ({ui.draft.url} \cap Hosts)}
    /\ UNCHANGED net

-----------------------------------------------------------------------------
(* The guided way. *)

GuidedModal == ui.modal = "guided"

\* updateField: an edit takes the command away.
UpdateField(n, ok) ==
    /\ GuidedModal
    /\ ui' = [ui EXCEPT !.guided = [name |-> n, valid |-> ok],
                        !.command = None]
    /\ UNCHANGED <<net, srv>>

ValidateForm == ui.guided.valid

Generate ==
    /\ GuidedModal /\ ~ui.generating /\ ValidateForm
    /\ ui' = [ui EXCEPT !.generating = TRUE]
    /\ net' = [net EXCEPT !.token = ui.guided] /\ UNCHANGED srv

\* Mutant: the command is built from the form on the screen.
BuildCommandOfScreen(form) ==
    [name |-> ui.guided.name, token |-> form.name]

\* The form of the render that asked.
BuildCommand(form) == [name |-> form.name, token |-> form.name]

\* A late answer is shown whatever has been edited, or closed, meanwhile.
GenerateReturns ==
    /\ net.token # None /\ net' = [net EXCEPT !.token = None]
    /\ \/ ui' = [ui EXCEPT !.generating = FALSE]
       \/ ui' = [ui EXCEPT !.generating = FALSE,
                           !.command = BuildCommand(net.token)]
    /\ UNCHANGED srv

HandleOpenChange ==
    /\ GuidedModal
    /\ ui' = [ui EXCEPT !.modal = "none", !.command = None]
    /\ UNCHANGED <<net, srv>>

Next ==
    \/ Open \/ HandleModalClose \/ TestCompatibility \/ TestReturns
    \/ CloseTestResult \/ AddFromTestResult
    \/ \E u \in Maybe(Hosts) : InputUrl(u) \/ InputIp(u)
    \/ \E u \in Hosts : ParseImportConfig(u)
    \/ \E n \in Names, ok \in BOOLEAN : UpdateField(n, ok)
    \/ Generate \/ GenerateReturns \/ HandleOpenChange

Spec == Init /\ [][Next]_vars

-----------------------------------------------------------------------------
\* Two fields of a form depend on each other and are edited in any order: the
\* IP that is saved is the address's own unless the user entered it.
IpIsOwnOrTyped == ui.draft.ip # ui.draft.url => ui.draft.typed

\* An answer may find another form on the screen: a command's token was asked
\* for with the values the command has.
CommandFitsToken == ui.command # None => ui.command.name = ui.command.token
=============================================================================
