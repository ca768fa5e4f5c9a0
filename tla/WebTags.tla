-------------------------------- MODULE WebTags ---------------------------------
(***************************************************************************)
(* The editor of a tunnel's tags                                           *)
(* (src/web/src/components/tunnels/portal-tag-modal.tsx): the same tags as *)
(* JSON and as a template of fields, each brought up to date from the      *)
(* other when the user changes the tab, and both from the tunnel's tags    *)
(* whenever those are fetched - every 15 s, also while the user types.     *)
(*                                                                         *)
(* Tags are a plain tag (a date, the route), one that its parser keeps     *)
(* when it is missing (the bandwidth, the volume) and one the template     *)
(* does not know.  ui is what the editor holds, net the tags being saved,  *)
(* srv the tunnel's.                                                       *)
(***************************************************************************)
EXTENDS Naturals

CONSTANTS
    Values,         \* values of a tag
    None,           \* no value
    Bad, Scalar     \* texts that are no JSON, or no object

TagsAssumption ==
    None \notin Values /\ Bad # Scalar /\ "tags" \notin {Bad, Scalar}

VARIABLES ui, net, srv

vars == <<ui, net, srv>>

Field == {"plain", "sticky", "extended"}
StandardFields == {"plain", "sticky"}
Value == Values \cup {None}
Tags == [Field -> Value]
NoTags == [f \in Field |-> None]

\* What the user has typed: tags, or a text that is none.
AsText(tags) == [tags |-> tags, is |-> "tags"]
Text == {AsText(tags) : tags \in Tags}
            \cup {[tags |-> NoTags, is |-> b] : b \in {Bad, Scalar}}

Page == [open : BOOLEAN, tab : {"json", "template"}, fields : Tags,
         json : Text, isJsonError : BOOLEAN, isSaving : BOOLEAN]

TypeOK ==
    /\ ui \in Page
    /\ net \subseteq Tags
    /\ srv \in Tags

-----------------------------------------------------------------------------
(* From one form into the other. *)

\* Mutant: the JSON is not brought up to date with the tags it alone has.
UpdateJsonOfStandardFields(u) ==
    [u EXCEPT !.json = AsText([u.fields EXCEPT !["extended"] = None]),
              !.isJsonError = FALSE]

\* The effect that runs when a field has changed.
UpdateJsonFromFields(u) ==
    [u EXCEPT !.json = AsText(u.fields), !.isJsonError = FALSE]

\* parseBandwidth and parseTraffic leave the field alone if there is no value.
Parse(old, tags) ==
    [f \in Field |-> IF f = "sticky" /\ tags[f] = None THEN old[f] ELSE tags[f]]

\* The effect that runs when the tags are other ones, and when the editor
\* opens or closes.  With no tags at all every field is emptied.
InitializeFromTags(u, tags) ==
    UpdateJsonFromFields(
        [u EXCEPT !.fields = IF tags = NoTags THEN NoTags ELSE Parse(@, tags)])

UpdateFieldsFromJson(u) ==
    CASE u.json.is = Bad -> [u EXCEPT !.isJsonError = TRUE]
      [] u.json.is = Scalar -> u
      [] u.json.is = "tags" ->
            UpdateJsonFromFields([u EXCEPT !.fields = Parse(@, u.json.tags)])

-----------------------------------------------------------------------------
(* The editor. *)

Init ==
    /\ srv \in Tags
    /\ ui = InitializeFromTags(
                [open |-> FALSE, tab |-> "json", fields |-> NoTags,
                 json |-> AsText(NoTags), isJsonError |-> FALSE,
                 isSaving |-> FALSE], srv)
    /\ net = {}

Open ==
    /\ ~ui.open
    /\ ui' = InitializeFromTags([ui EXCEPT !.open = TRUE], srv)
    /\ UNCHANGED <<net, srv>>

Close ==
    /\ ui.open
    /\ ui' = InitializeFromTags([ui EXCEPT !.open = FALSE], srv)
    /\ UNCHANGED <<net, srv>>

\* The page's poll: the tags are a new object, changed or not.
Poll ==
    /\ ui' = InitializeFromTags(ui, srv) /\ UNCHANGED <<net, srv>>

HandleJsonChange(text) ==
    /\ ui.open /\ ui.tab = "json" /\ ui.json # text
    /\ ui' = [ui EXCEPT !.json = text] /\ UNCHANGED <<net, srv>>

\* The fields of the template: the dates, the amount, the bandwidth and the
\* volume, the route and the note.
DateFields == {"plain"}
AmountFields == {"plain"}
VolumeFields == {"sticky"}

ChangeField(f, v) ==
    /\ ui.open /\ ui.tab = "template" /\ ui.fields[f] # v
    /\ f \in DateFields \cup AmountFields \cup VolumeFields
    /\ ui' = UpdateJsonFromFields([ui EXCEPT !.fields[f] = v])
    /\ UNCHANGED <<net, srv>>

HandleTabChange ==
    /\ ui.open
    /\ ui' = IF ui.tab = "json"
             THEN [UpdateFieldsFromJson(ui) EXCEPT !.tab = "template"]
             ELSE [UpdateJsonFromFields(ui) EXCEPT !.tab = "json"]
    /\ UNCHANGED <<net, srv>>

\* What the tab says is what is saved; a text that is no JSON is a toast.
HandleSave ==
    /\ ui.open /\ ~ui.isJsonError /\ ~ui.isSaving
    /\ \/ /\ ui.tab = "template"
          /\ net' = {ui.fields}
       \/ /\ ui.tab = "json" /\ ui.json.is = "tags"
          /\ net' = {ui.json.tags}
    /\ ui' = [ui EXCEPT !.isSaving = TRUE] /\ UNCHANGED srv

SaveFails ==
    /\ ui.isSaving
    /\ ui' = [ui EXCEPT !.isSaving = FALSE]
    /\ net' = {} /\ UNCHANGED srv

\* The editor closes: the detail is fetched anew, and its answer is a poll's.
SaveReturns(tags) ==
    /\ srv' = tags /\ net' = {}
    /\ ui' = IF ui.open
             THEN InitializeFromTags([ui EXCEPT !.isSaving = FALSE,
                                                !.open = FALSE], srv)
             ELSE [ui EXCEPT !.isSaving = FALSE]

Next ==
    \/ Open \/ Close \/ Poll \/ HandleTabChange \/ HandleSave \/ SaveFails
    \/ \E text \in Text : HandleJsonChange(text)
    \/ \E f \in Field, v \in Value : ChangeField(f, v)
    \/ \E tags \in net : SaveReturns(tags)

Spec == Init /\ [][Next]_vars

-----------------------------------------------------------------------------
\* Whatever comes in between - polls, changes of the tab, closing and opening
\* - the template never hides a tag: while it is shown the JSON that is behind
\* it, if it is one, has the same tags, those included that the template does
\* not show.
TabsAgree ==
    ui.tab = "template" /\ ui.json.is = "tags" => ui.json.tags = ui.fields
=============================================================================
