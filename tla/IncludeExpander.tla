---------------------------- MODULE IncludeExpander ----------------------------
(***************************************************************************)
(* internal/config/expander.go: the steps of type include are replaced by  *)
(* the steps of their templates, phase by phase, and the needs rewired to  *)
(* them; what comes out is sorted by DagSort.                              *)
(*                                                                         *)
(* A step as written has a name, needs and the template it includes.       *)
(***************************************************************************)
EXTENDS DagSort, SequencesExt

CONSTANTS
  Template,   \* Template[t]: the steps of a template file
  Sources     \* the pipelines as they are written

\* What a step of another type includes.
None == "none"

\* The names and the needs in a template.
Locals(t) ==
  {Template[t][i].name : i \in 1..Len(Template[t])}
    \cup UNION {NeedSet(Template[t][i]) : i \in 1..Len(Template[t])}

Qualified(include, name) == include \o "." \o name

\* Name has all the names there are, before and after the expansion.
ASSUME ExpanderAssumption ==
  /\ None \notin DOMAIN Template
  /\ Template \in [DOMAIN Template -> Seq([name : STRING, needs : Seq(STRING)])]
  /\ \A s \in Sources, p \in 1..3 :
       /\ s[p] \in Seq([name : Name, needs : Seq(Name), include : DOMAIN Template \cup {None}])
       /\ \A i \in 1..Len(s[p]) : s[p][i].include # None =>
            \A d \in Locals(s[p][i].include) : Qualified(s[p][i].name, d) \in Name

VARIABLES
  source,        \* the pipeline as it is written
  includeLeaves  \* the names that stand for the includes met in this phase

expandVars == <<dagVars, source, includeLeaves>>

ExpandInit ==
  /\ source \in Sources
  /\ pipeline = [p \in 1..3 |-> <<>>]
  /\ stage = "expand"
  /\ includeLeaves = [n \in {} |-> <<>>]
  /\ SortInit

-----------------------------------------------------------------------------
\* A need that names an include is a need of its leaves.
Relinked(needs) ==
  FlattenSeq([i \in 1..Len(needs) |->
                IF needs[i] \in DOMAIN includeLeaves THEN includeLeaves[needs[i]] ELSE <<needs[i]>>])

\* Mutant of Leaves: the steps without needs of their own stand for the template.
EntriesOf(include, steps) ==
  FlattenSeq([i \in 1..Len(steps) |->
                IF steps[i].needs = <<>> THEN <<Qualified(include, steps[i].name)>> ELSE <<>>])

\* The steps of a template that none of its steps needs.
Leaves(include, steps) ==
  FlattenSeq([i \in 1..Len(steps) |->
                IF \A j \in 1..Len(steps) : steps[i].name \notin NeedSet(steps[j])
                THEN <<Qualified(include, steps[i].name)>> ELSE <<>>])

\* The steps without needs inherit those of the include.
Product(s, t) ==
  [name  |-> Qualified(s.name, t.name),
   needs |-> IF t.needs = <<>> THEN Relinked(s.needs)
             ELSE [i \in 1..Len(t.needs) |-> Qualified(s.name, t.needs[i])]]

Written == source[phase][position]

\* The next step of the phase is replaced by these.
Emit(steps) ==
  /\ pipeline' = [pipeline EXCEPT ![phase] = @ \o steps]
  /\ position' = position + 1
  /\ UNCHANGED <<phase, stage, need, counted, inDegree, adj, sortVars, source>>

ExpandStep ==
  /\ stage = "expand" /\ position <= Len(source[phase])
  /\ Written.include = None
  /\ Emit(<<[name |-> Written.name, needs |-> Relinked(Written.needs)]>>)
  /\ UNCHANGED includeLeaves

ExpandInclude ==
  /\ stage = "expand" /\ position <= Len(source[phase])
  /\ Written.include # None
  /\ LET steps == Template[Written.include]
     IN  /\ Emit([i \in 1..Len(steps) |-> Product(Written, steps[i])])
         /\ includeLeaves' = [n \in DOMAIN includeLeaves \cup {Written.name} |->
                                IF n = Written.name THEN Leaves(n, steps) ELSE includeLeaves[n]]

\* No template is named, or it cannot be read or parsed.
Unreadable ==
  /\ stage = "expand" /\ position <= Len(source[phase])
  /\ Written.include # None
  /\ stage' = "unreadable"
  /\ UNCHANGED <<pipeline, phase, scanVars, inDegree, adj, sortVars, source, includeLeaves>>

\* Each phase is expanded by itself; then all are validated.
EndExpansion ==
  /\ stage = "expand" /\ position > Len(source[phase])
  /\ phase' = IF phase = 3 THEN 1 ELSE phase + 1
  /\ stage' = IF phase = 3 THEN "scan" ELSE "expand"
  /\ position' = 1
  /\ includeLeaves' = [n \in {} |-> <<>>]
  /\ UNCHANGED <<pipeline, need, counted, inDegree, adj, sortVars, source>>

Expand == ExpandStep \/ ExpandInclude \/ Unreadable \/ EndExpansion

Finished == stage \in {"accepted", "rejected", "unreadable"} /\ UNCHANGED expandVars

ExpandNext == Expand \/ (Sort /\ UNCHANGED <<source, includeLeaves>>) \/ Finished

ExpandSpec == ExpandInit /\ [][ExpandNext]_expandVars

-----------------------------------------------------------------------------
\* The steps of the template that the i-th step includes have other names than the
\* j-th step, and than those of the template it includes.
Apart(S, i, j) ==
  \A d \in Locals(S[i].include) :
    /\ Qualified(S[i].name, d) # S[j].name
    /\ S[j].include # None =>
         \A e \in Locals(S[j].include) :
           Qualified(S[i].name, d) = Qualified(S[j].name, e) => S[i].name = S[j].name /\ d = e

NamesApart ==
  \A s \in Sources, p \in 1..3 :
    \A i, j \in 1..Len(s[p]) : s[p][i].include # None => Apart(s[p], i, j)

-----------------------------------------------------------------------------
(* Properties.                                                             *)

\* The names of the steps that a step as written becomes.
Products(s) ==
  IF s.include = None THEN {s.name}
  ELSE LET steps == Template[s.include] IN {Qualified(s.name, steps[i].name) : i \in 1..Len(steps)}

\* Where the step of a name is in the order of phase p.
Place(p, n) == CHOOSE k \in 1..Len(sorted[p]) : pipeline[p][sorted[p][k]].name = n

NeedsOf(p, n) ==
  UNION {NeedSet(pipeline[p][i]) : i \in {j \in 1..Len(pipeline[p]) : pipeline[p][j].name = n}}

\* The names that the step n of phase p waits for, at first or second hand.
Upstream(p, n) ==
  LET f[k \in 0..Len(pipeline[p])] ==
        IF k = 0 THEN NeedsOf(p, n) ELSE f[k-1] \cup UNION {NeedsOf(p, m) : m \in f[k-1]}
  IN  f[Len(pipeline[p])]

Waits(p, n, m) == m \in Upstream(p, n) /\ Place(p, m) < Place(p, n)

AllOnce(p) ==
  /\ Len(sorted[p]) = Len(pipeline[p])
  /\ {pipeline[p][sorted[p][k]].name : k \in 1..Len(sorted[p])}
       = UNION {Products(source[p][i]) : i \in 1..Len(source[p])}

TemplatesHold(p) ==
  \A i \in 1..Len(source[p]) : source[p][i].include # None =>
    LET inner == Template[source[p][i].include]
        name == source[p][i].name
    IN  \A a, b \in 1..Len(inner) : inner[a].name \in NeedSet(inner[b]) =>
          Waits(p, Qualified(name, inner[b].name), Qualified(name, inner[a].name))

NeedsHold(p) ==
  (\A i, j \in 1..Len(source[p]) : source[p][i].name = source[p][j].name => i = j) =>
    \A i, j \in 1..Len(source[p]) : source[p][i].name \in NeedSet(source[p][j]) =>
      \A m \in Products(source[p][i]), n \in Products(source[p][j]) : Waits(p, n, m)

\* An accepted pipeline is what was written: each step, and each step of an included
\* template, is there once; those of a template wait for what their template says;
\* and where the names of a phase are unique, all that a step becomes waits for all
\* that the steps it needs become, however includes need one another.  Who waits for
\* another comes after it in the order that is run and rolled back.
OrderAsWritten ==
  stage = "accepted" => \A p \in 1..3 : AllOnce(p) /\ TemplatesHold(p) /\ NeedsHold(p)
=============================================================================
