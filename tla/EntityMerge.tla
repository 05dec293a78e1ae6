---------------------------- MODULE EntityMerge ----------------------------
(***************************************************************************)
(* The party a permit names, as an entity of the knowledge graph, and the  *)
(* merge of duplicates (resolve_entity, create_relationship and            *)
(* merge_graph_entities in src/app/services/graph_service.py; the          *)
(* projection in ingestion/service.py).                                    *)
(*                                                                         *)
(* Each permit is of a source of its own, so their transactions overlap;   *)
(* one permit's, and the merge, are two steps each: what is read, and what *)
(* is written and committed.  Any error takes the whole transaction back.  *)
(* Names so similar that one is taken for the other are one name.  Parties *)
(* have no source ids (a duplicate that has them cannot be merged, for the *)
(* reason given at Mergeable).                                             *)
(***************************************************************************)
EXTENDS FiniteSets, Naturals

CONSTANTS
  Folders,         \* the permits
  PartyNames,
  Mentions,        \* what a permit may say of the party: name, also
  NoMention,       \* the permit has not been ingested
  NoNaming,        \* no transaction of the permit in progress
  MaxEntities,     \* bound: entities
  MaxNamings,      \* bound: transactions of permits
  MaxJoins         \* bound: merges

ASSUME EntityAssumption ==
  /\ Mentions \subseteq [name: PartyNames, also: SUBSET PartyNames]
  /\ NoMention \notin Mentions /\ PartyNames # {}
  /\ MaxEntities \in Nat /\ MaxNamings \in Nat /\ MaxJoins \in Nat

Ents == 1..MaxEntities

VARIABLES
  ent,        \* graph_entities: "none", "making" (not committed), "live", "gone"
  display,    \* the name it was made with
  aka,        \* graph_entity_aliases
  tie,        \* the permit's relationship with each entity, current or past
  mention,    \* what each permit says
  naming,     \* the transaction of each permit in progress
  joining,    \* the merges in progress: at most one
  overtaken,  \* history: permits related to a duplicate that committed after
              \* the merge's reads and before its end, until a transaction of
              \* theirs that began after it commits
  namings, joins  \* bounded events so far

entityVars == <<ent, display, aka, tie, mention, naming, joining, overtaken, namings, joins>>

EntityInit ==
  /\ ent = [e \in Ents |-> "none"]
  /\ display = [e \in Ents |-> CHOOSE n \in PartyNames : TRUE]
  /\ aka = [e \in Ents |-> {}]
  /\ tie = [p \in Folders |-> [e \in Ents |-> "absent"]]
  /\ mention = [p \in Folders |-> NoMention]
  /\ naming = [p \in Folders |-> NoNaming]
  /\ joining = {} /\ overtaken = {}
  /\ namings = 0 /\ joins = 0

Terms(m) == {m.name} \cup m.also

Exact(m) == {e \in Ents : ent[e] = "live" /\ display[e] \in Terms(m)}

Aliased(m) == {e \in Ents : ent[e] = "live" /\ aka[e] \cap Terms(m) # {}}

Fresh == {e \in Ents : ent[e] = "none" /\ \A i \in 1..(e - 1) : ent[i] # "none"}

\* resolve_entity: any entity of that name, else any that goes by it, or a new one.
\* The alias it happens on may be of an entity of another type: it then looks no
\* further for one.  Two transactions that find none make two.
Resolved(m) == IF Exact(m) # {} THEN Exact(m) ELSE Aliased(m) \cup Fresh

\* A changed permit is projected.
NameParty(p, m) ==
  /\ naming[p] = NoNaming /\ namings < MaxNamings
  /\ mention[p] # m
  /\ \E e \in Resolved(m) :
       /\ naming' = [naming EXCEPT ![p] =
            [mention |-> m, entity |-> e, had |-> tie[p][e] # "absent",
             adds |-> Terms(m) \ aka[e],
             mine |-> {x \in Ents : tie[p][x] = "current"}, broken |-> FALSE, late |-> FALSE]]
       /\ ent' = IF ent[e] = "none" THEN [ent EXCEPT ![e] = "making"] ELSE ent
       /\ display' = IF ent[e] = "none" THEN [display EXCEPT ![e] = m.name] ELSE display
  /\ namings' = namings + 1
  /\ UNCHANGED <<aka, tie, mention, joining, overtaken, joins>>

\* A row that was deleted cannot be updated, and one that is there by now
\* cannot be inserted.
NamingFails(p, n) ==
  n.broken \/ (~n.had /\ tie[p][n.entity] # "absent") \/ n.adds \cap aka[n.entity] # {}

\* The relationships that were current are expired; the one with the entity is
\* current, again or newly.
CommitNaming(p) ==
  /\ naming[p] # NoNaming
  /\ LET n == naming[p] IN
       IF NamingFails(p, n)
       THEN /\ ent' = IF ent[n.entity] = "making" THEN [ent EXCEPT ![n.entity] = "none"] ELSE ent
            /\ UNCHANGED <<aka, tie, mention, joining, overtaken>>
       ELSE /\ ent' = [ent EXCEPT ![n.entity] = "live"]
            /\ aka' = [aka EXCEPT ![n.entity] = @ \cup n.adds]
            /\ tie' = [tie EXCEPT ![p] = [x \in Ents |->
                 IF x = n.entity THEN "current" ELSE IF x \in n.mine THEN "past" ELSE @[x]]]
            /\ mention' = [mention EXCEPT ![p] = n.mention]
            /\ joining' = {[j EXCEPT !.since = @ \cup {p}] : j \in joining}
            /\ overtaken' = IF n.late THEN overtaken ELSE overtaken \ {p}
  /\ naming' = [naming EXCEPT ![p] = NoNaming]
  /\ UNCHANGED <<display, namings, joins>>

(***************************************************************************)
(* Merge of entity d into entity k                                         *)
(***************************************************************************)
\* The display name and then each alias of the duplicate are added to the
\* survivor, where a query finds them missing; it does not find what was just
\* added (autoflush=False, src/app/db.py:28).  A name that is both is therefore
\* inserted twice, and the merge fails, unless the survivor has it already.
Mergeable(k, d) == display[d] \notin aka[d] \ aka[k]

AskJoin(k, d) ==
  /\ joining = {} /\ joins < MaxJoins
  /\ k # d /\ ent[k] = "live" /\ ent[d] = "live"
  /\ Mergeable(k, d)
  /\ joining' = {[keep |-> k, drop |-> d, adds |-> aka[d] \ aka[k], since |-> {},
                  kept |-> [p \in Folders |-> tie[p][k]],
                  dropped |-> [p \in Folders |-> tie[p][d]]]}
  /\ joins' = joins + 1
  /\ UNCHANGED <<ent, display, aka, tie, mention, naming, overtaken, namings>>

Twice(j) == {p \in Folders : j.kept[p] # "absent" /\ j.dropped[p] # "absent"}

Rewired(j) == {p \in Folders : j.kept[p] = "absent" /\ j.dropped[p] # "absent"}

\* Mutant: the survivor's relationship stays as it was.
CombinedAsKept(j, p) == tie[p][j.keep]

\* Of two equivalent relationships the survivor's is current when either is.
Combined(j, p) ==
  IF j.kept[p] = "past" /\ j.dropped[p] = "current" THEN "current" ELSE tie[p][j.keep]

JoinFails(j) ==
  \/ j.adds \cap aka[j.keep] # {}
  \/ \E p \in Rewired(j) : tie[p][j.keep] # "absent"

Overtakes(j) == {p \in j.since : tie[p][j.drop] # "absent"}

\* The duplicate goes, and with it what else has come to refer to it.
CommitJoin(j) ==
  /\ joining' = {}
  /\ IF JoinFails(j)
     THEN UNCHANGED <<ent, aka, tie, naming, overtaken>>
     ELSE /\ ent' = [ent EXCEPT ![j.drop] = "gone"]
          /\ aka' = [aka EXCEPT ![j.keep] = @ \cup j.adds, ![j.drop] = {}]
          /\ tie' = [p \in Folders |-> [tie[p] EXCEPT
               ![j.drop] = "absent",
               ![j.keep] = IF p \in Twice(j) THEN Combined(j, p)
                           ELSE IF p \in Rewired(j) THEN tie[p][j.drop] ELSE @]]
          /\ naming' = [p \in Folders |->
               IF naming[p] = NoNaming THEN NoNaming
               ELSE LET n == naming[p] IN [n EXCEPT
                 !.broken = @ \/ n.entity = j.drop \/ (j.drop \in n.mine /\ p \notin Rewired(j)),
                 !.late = @ \/ p \in Overtakes(j),
                 !.mine = IF j.drop \in @ THEN (@ \ {j.drop}) \cup {j.keep} ELSE @]]
          /\ overtaken' = overtaken \cup Overtakes(j)
  /\ UNCHANGED <<display, mention, namings, joins>>

EntityNext ==
  \/ \E p \in Folders, m \in Mentions : NameParty(p, m)
  \/ \E p \in Folders : CommitNaming(p)
  \/ \E k, d \in Ents : AskJoin(k, d)
  \/ \E j \in joining : CommitJoin(j)

EntitySpec == EntityInit /\ [][EntityNext]_entityVars

(***************************************************************************)
(* Properties                                                              *)
(***************************************************************************)
\* The rows and the transactions have the shapes the code gives them.
EntityTypeOK ==
  /\ ent \in [Ents -> {"none", "making", "live", "gone"}]
  /\ display \in [Ents -> PartyNames]
  /\ aka \in [Ents -> SUBSET PartyNames]
  /\ \A e \in Ents : ent[e] = "gone" => aka[e] = {}
  /\ tie \in [Folders -> [Ents -> {"absent", "past", "current"}]]
  /\ \A p \in Folders, e \in Ents : tie[p][e] # "absent" => ent[e] = "live"
  /\ mention \in [Folders -> Mentions \cup {NoMention}]
  /\ \A p \in Folders : naming[p] # NoNaming =>
       naming[p] \in [mention: Mentions, entity: Ents, had: BOOLEAN, adds: SUBSET PartyNames,
                      mine: SUBSET Ents, broken: BOOLEAN, late: BOOLEAN]
  /\ joining \subseteq [keep: Ents, drop: Ents, adds: SUBSET PartyNames,
                        since: SUBSET Folders,
                        kept: [Folders -> {"absent", "past", "current"}],
                        dropped: [Folders -> {"absent", "past", "current"}]]
  /\ overtaken \subseteq Folders
  /\ namings \in 0..MaxNamings /\ joins \in 0..MaxJoins

\* "Aliases, [...] relationships [...] move to the survivor; equivalent edges
\* collapse" (docs/knowledge_graph.md): through any merges a permit stays
\* related to one party, an entity that goes by the name the permit gives;
\* except a permit related to the duplicate whose transaction committed between
\* what the merge read and its end: until a transaction that began after the
\* merge commits, its relationship or its name may be lost with the duplicate,
\* or a past relationship be current again.
RelatedToOneParty ==
  \A p \in Folders :
    mention[p] # NoMention /\ p \notin overtaken =>
      \E e \in Ents : /\ {x \in Ents : tie[p][x] = "current"} = {e}
                      /\ mention[p].name \in aka[e]
=============================================================================
