-------------------------- MODULE EnvironmentStore --------------------------
(***************************************************************************)
(* Environments: named sets of variables that connection endpoints may     *)
(* refer to (models/environment.ts), the store that keeps them             *)
(* (store/environment-store.ts) and the handlers of the environment        *)
(* manager, which always edits the active environment.                     *)
(*                                                                         *)
(* A text is a sequence of pieces: a key in a template stands for a        *)
(* {{key}} token, every other piece, such as the text of a value that was  *)
(* typed into it, for itself.  Keys are taken without    *)
(* the blanks around them.  Times and descriptions are left out, and a     *)
(* name is only empty or not.                                              *)
(***************************************************************************)
EXTENDS Arrangements, SequencesExt

CONSTANTS
  UniqueKeys,   \* "variable", "variable_2", ...: what addVariable may pick, in order
  InvalidKey,   \* any key that does not match variableKeyPattern
  Values,       \* texts of variables
  Empty,        \* the empty text, one of Values
  Literal,      \* a piece of text that is no token
  MaxEdits      \* bound: operations that grow or change the list

VARIABLES
  environments,   \* the list
  active,         \* activeEnvironmentId
  edits           \* operations so far, also the source of new ids

envVars == <<environments, active, edits>>

ValidKeys == {"base_url", "auth_token"} \cup ToSet(UniqueKeys)
Keys      == ValidKeys \cup {InvalidKey}

Variable == [key : Keys, value : Values, secret : BOOLEAN]
Profile  == [named : BOOLEAN, url : Seq(ValidKeys \cup {Literal} \cup Values)]

IsEnvironment(e) ==
  /\ DOMAIN e = {"id", "named", "preset", "vars", "profiles"}
  /\ e.id \in Nat /\ e.named \in BOOLEAN /\ e.preset \in BOOLEAN
  /\ e.vars \in Seq(Variable)
  /\ e.profiles \in Seq(Profile)

----------------------------------------------------------------------------
(* Templates *)

HasEnvironmentVariables(text) == \E i \in DOMAIN text : text[i] \in ValidKeys

UsedVariables(text) == ToSet(text) \cap ValidKeys

(***************************************************************************)
(* variableMap: the first variable of a key gives it its value.            *)
(***************************************************************************)
Lookup(vars, key) ==
  LET of == {i \in DOMAIN vars : vars[i].key = key}
  IN  IF of = {} THEN Empty ELSE vars[Min(of)].value

(***************************************************************************)
(* interpolateEnvironmentVariables: an unknown and an empty variable are   *)
(* missing alike, and their tokens stay.                                   *)
(***************************************************************************)
Interpolate(text, vars) ==
  LET missing == {k \in UsedVariables(text) : Lookup(vars, k) = Empty}
  IN  [ok      |-> missing = {},
       missing |-> missing,
       value   |-> [i \in DOMAIN text |->
                      IF text[i] \in ValidKeys \ missing THEN Lookup(vars, text[i]) ELSE text[i]]]

(***************************************************************************)
(* redactEnvironmentSecrets and getProfilePreview: the label shown for a   *)
(* profile's URL, with "****" for the value of a secret; a URL without a   *)
(* token is shown as it was typed.                                         *)
(***************************************************************************)
SecretValues(vars) == {v.value : v \in {w \in ToSet(vars) : w.secret}} \ {Empty}

RedactSecrets(text, vars) ==
  [i \in DOMAIN text |-> IF text[i] \in SecretValues(vars) THEN "****" ELSE text[i]]

ProfilePreview(url, vars) ==
  LET result == Interpolate(url, vars) IN
  IF ~HasEnvironmentVariables(url) THEN [ok |-> TRUE, label |-> url, missing |-> {}]
  ELSE IF ~result.ok THEN [ok |-> FALSE, label |-> <<>>, missing |-> result.missing]
  ELSE [ok |-> TRUE, label |-> RedactSecrets(result.value, vars), missing |-> {}]

----------------------------------------------------------------------------
(* Environments *)

BaseUrl == <<"base_url">>

Var(key, value, secret) == [key |-> key, value |-> value, secret |-> secret]
ProfileOf(url)          == [named |-> TRUE, url |-> url]

(***************************************************************************)
(* createPresetEnvironment; the two remote presets come without a token.   *)
(***************************************************************************)
Preset(id, token, url, some) ==
  [id |-> id, named |-> TRUE, preset |-> TRUE,
   vars |-> <<Var("base_url", some, FALSE), Var("auth_token", token, TRUE)>>,
   profiles |-> <<ProfileOf(url)>>]

SomeValue == CHOOSE v \in Values : v # Empty

DefaultEnvironments ==
  LET withToken == <<"base_url", Literal, "auth_token">> IN
  << Preset(1, SomeValue, BaseUrl, SomeValue),        \* env-local
     Preset(2, Empty, withToken, SomeValue),          \* env-staging
     Preset(3, Empty, withToken, SomeValue) >>        \* env-production

CreateEnvironment(id) ==
  [id |-> id, named |-> TRUE, preset |-> FALSE,
   vars |-> <<Var("base_url", SomeValue, FALSE)>>, profiles |-> <<ProfileOf(BaseUrl)>>]

DuplicateOf(e, id) == [e EXCEPT !.id = id, !.named = TRUE, !.preset = FALSE]

Ids(list) == {e.id : e \in ToSet(list)}

(***************************************************************************)
(* getActiveEnvironment                                                    *)
(***************************************************************************)
Active(list, id) ==
  LET of == {i \in DOMAIN list : list[i].id = id}
  IN  IF of = {} THEN list[1] ELSE list[Min(of)]

(***************************************************************************)
(* sanitizeEnvironments: entries without a name go, and in the others      *)
(* variables with an invalid key and profiles without a name or URL.       *)
(***************************************************************************)
UsableProfiles(list) == Kept(list, {i \in DOMAIN list : list[i].named /\ list[i].url # <<>>})

SanitizedWithoutEmpty(e) ==   \* faulty: drops variables without a value too
  [e EXCEPT !.vars = Kept(@, {i \in DOMAIN @ : @[i].key # InvalidKey /\ @[i].value # Empty}),
            !.profiles = UsableProfiles(@)]

Sanitized(e) ==
  [e EXCEPT !.vars = Kept(@, {i \in DOMAIN @ : @[i].key # InvalidKey}),
            !.profiles = UsableProfiles(@)]

SanitizedList(list) ==
  LET named == Kept(list, {i \in DOMAIN list : list[i].named})
  IN  [i \in DOMAIN named |-> Sanitized(named[i])]

(***************************************************************************)
(* normalizeEnvironmentsState, on import and on restart.                   *)
(***************************************************************************)
Normalized(list, id) ==
  LET next == IF SanitizedList(list) = <<>> THEN DefaultEnvironments ELSE SanitizedList(list)
  IN  [environments |-> next, active |-> IF id \in Ids(next) THEN id ELSE next[1].id]

TypeOK ==
  /\ \A i \in DOMAIN environments : IsEnvironment(environments[i])
  /\ active \in Nat
  /\ edits \in 0 .. MaxEdits

Init ==
  /\ environments = DefaultEnvironments
  /\ active = 1
  /\ edits = 0

----------------------------------------------------------------------------
(* The store's operations, as the manager calls them *)

NewId == 4 + edits

Edit == edits < MaxEdits /\ edits' = edits + 1

AddEnvironment ==
  /\ Edit
  /\ environments' = Append(environments, CreateEnvironment(NewId))
  /\ active' = NewId

DuplicateEnvironment ==
  /\ Edit
  /\ environments' = Append(environments, DuplicateOf(Active(environments, active), NewId))
  /\ active' = NewId

(***************************************************************************)
(* deleteEnvironment refuses the last one; the active one gives way to the *)
(* first of those left.                                                    *)
(***************************************************************************)
DeleteEnvironment ==
  LET others == Kept(environments, {i \in DOMAIN environments : environments[i].id # active}) IN
  /\ Len(environments) > 1
  /\ environments' = others
  /\ active' = Active(others, active).id
  /\ UNCHANGED edits

SetActiveEnvironment ==
  /\ \E id \in Ids(environments) : active' = id
  /\ UNCHANGED <<environments, edits>>

(***************************************************************************)
(* updateEnvironmentById for the active environment.                       *)
(***************************************************************************)
Update(New(_)) ==
  /\ Edit
  /\ environments' = [i \in DOMAIN environments |->
       IF environments[i].id = active THEN New(environments[i]) ELSE environments[i]]
  /\ UNCHANGED active

Current == Active(environments, active)

RenameEnvironment == \E b \in BOOLEAN : Update(LAMBDA e : [e EXCEPT !.named = b])

(***************************************************************************)
(* createUniqueVariableKey: the first name that no variable has yet.       *)
(***************************************************************************)
UniqueKey(vars) ==
  UniqueKeys[Min({n \in DOMAIN UniqueKeys : \A i \in DOMAIN vars : vars[i].key # UniqueKeys[n]})]

AddVariable ==
  /\ \E k \in ToSet(UniqueKeys) : \A i \in DOMAIN Current.vars : Current.vars[i].key # k
  /\ Update(LAMBDA e : [e EXCEPT !.vars = Append(@, Var(UniqueKey(e.vars), Empty, FALSE))])

(***************************************************************************)
(* updateVariable: one field of one variable; nothing checks a key.        *)
(***************************************************************************)
UpdateVariable ==
  \E i \in DOMAIN Current.vars :
    \/ \E k \in Keys : Update(LAMBDA e : [e EXCEPT !.vars[i].key = k])
    \/ \E v \in Values : Update(LAMBDA e : [e EXCEPT !.vars[i].value = v])
    \/ Update(LAMBDA e : [e EXCEPT !.vars[i].secret = ~@])

DeleteVariable ==
  \E i \in DOMAIN Current.vars : Update(LAMBDA e : [e EXCEPT !.vars = RemoveAt(@, i)])

AddConnectionProfile == Update(LAMBDA e : [e EXCEPT !.profiles = Append(@, ProfileOf(BaseUrl))])

TypedUrls ==
  {<<>>, BaseUrl} \cup {<<v>> : v \in Values \ {Empty}} \cup {<<"base_url", v>> : v \in Values \ {Empty}}

UpdateConnectionProfile ==
  \E i \in DOMAIN Current.profiles :
    \/ \E b \in BOOLEAN : Update(LAMBDA e : [e EXCEPT !.profiles[i].named = b])
    \/ \E u \in TypedUrls : Update(LAMBDA e : [e EXCEPT !.profiles[i].url = u])

DeleteConnectionProfile ==
  \E i \in DOMAIN Current.profiles :
    Update(LAMBDA e : [e EXCEPT !.profiles = RemoveAt(@, i)])

----------------------------------------------------------------------------
(* Files and storage *)

(***************************************************************************)
(* handleExport and handleImport with parseEnvironmentExport.  A file      *)
(* replaces the whole list, so importing one that was exported earlier     *)
(* leads where importing it right away led.  A file of another format is   *)
(* refused and changes nothing.                                            *)
(***************************************************************************)
HandleImport ==
  /\ environments' = Normalized(environments, 0).environments
  /\ active' = Normalized(environments, 0).active
  /\ UNCHANGED edits

(***************************************************************************)
(* A restart reads back what the last change stored (merge).               *)
(***************************************************************************)
Restart ==
  /\ environments' = Normalized(environments, active).environments
  /\ active' = Normalized(environments, active).active
  /\ UNCHANGED edits

Next ==
  \/ AddEnvironment
  \/ DuplicateEnvironment
  \/ DeleteEnvironment
  \/ SetActiveEnvironment
  \/ RenameEnvironment
  \/ AddVariable
  \/ UpdateVariable
  \/ DeleteVariable
  \/ AddConnectionProfile
  \/ UpdateConnectionProfile
  \/ DeleteConnectionProfile
  \/ HandleImport
  \/ Restart

Spec == Init /\ [][Next]_envVars

----------------------------------------------------------------------------
(* Properties *)

(***************************************************************************)
(* There is always an active environment, it is listed, and no other entry *)
(* goes by its id, whatever is deleted, imported or restored.              *)
(***************************************************************************)
ActiveIsListed ==
  /\ active \in Ids(environments)
  /\ \A i, j \in DOMAIN environments : environments[i].id = environments[j].id => i = j

(***************************************************************************)
(* What the list of profiles shows for a URL with tokens holds no value of *)
(* a secret, not even one that a variable that is none, or another secret  *)
(* of the same key, brought into the URL, or that was typed into it.  (A   *)
(* secret typed into a URL without tokens is shown: nothing redacts it.)   *)
(***************************************************************************)
PreviewsHideSecrets ==
  \A e \in ToSet(environments) : \A p \in ToSet(e.profiles) :
    LET preview == ProfilePreview(p.url, e.vars)
    IN  HasEnvironmentVariables(p.url) /\ preview.ok =>
          ToSet(preview.label) \cap SecretValues(e.vars) = {}

Templates == {<<k>> : k \in ValidKeys} \cup {<<"base_url", Literal, "auth_token">>}

Meanings(e) == [t \in Templates |-> Interpolate(t, e.vars)]

(***************************************************************************)
(* What is cleaned up on a restart never changes what a template stands    *)
(* for: every environment that has a name comes back with the meaning it   *)
(* had, duplicate keys, empty values and keys made invalid included, and   *)
(* so does the active one.                                                 *)
(***************************************************************************)
KeepsMeaning(before, after) ==
  \A i \in DOMAIN before : before[i].named =>
    \E j \in DOMAIN after :
      after[j].id = before[i].id /\ Meanings(after[j]) = Meanings(before[i])

RestoredAlike ==
  Restart => /\ KeepsMeaning(environments, environments')
             /\ (Current.named => active' = active)

ImportedAlike == HandleImport => KeepsMeaning(environments, environments')

=============================================================================
