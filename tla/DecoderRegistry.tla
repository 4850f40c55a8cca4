---------------------------- MODULE DecoderRegistry ----------------------------
(***************************************************************************)
(* The decoder factories, by id and by file extension.  Every operation    *)
(* runs under the registry's mutex, the host's Probe included, so each is  *)
(* a step.  A factory is the host's object: its properties are constants,  *)
(* and two factories may have one id.                                      *)
(***************************************************************************)
EXTENDS Integers, Sequences, FiniteSets, SequencesExt

CONSTANTS
  None,
  Factory,         \* the factory objects
  Id,              \* Id[f]
  Priority,        \* Priority[f]
  Extensions,      \* SupportedExtensions: [Factory -> Seq of spellings]
  Purposes,        \* the purposes f supports
  Probe(_, _, _),  \* Probe(f, header, extension)
  BuiltIn          \* the factories RegisterBuiltInDecoders registers, in its order

ASSUME RegistryConstants ==
  /\ IsFiniteSet(Factory) /\ BuiltIn \in Seq(Factory)
  /\ Priority \in [Factory -> Int]
  /\ "" \notin {Id[f] : f \in Factory}
  /\ \A f \in Factory : IsFiniteSet(DOMAIN Extensions[f])

VARIABLES
  factoriesById,         \* [a set of ids -> Factory]
  factoriesByExtension,  \* [a set of extensions -> Seq of ids, highest priority first]
  builtIns               \* how many of BuiltIn the call_once has come to

registryVars == <<factoriesById, factoriesByExtension, builtIns>>

RegistryInit ==
  /\ factoriesById = [id \in {} |-> None]
  /\ factoriesByExtension = [extension \in {} |-> <<>>]
  /\ builtIns = 0

Registered == {factoriesById[id] : id \in DOMAIN factoriesById}

IdsFor(extension) ==
  IF extension \in DOMAIN factoriesByExtension
  THEN factoriesByExtension[extension] ELSE <<>>

IsSupportedExtension(extension) == IdsFor(extension) # <<>>

-----------------------------------------------------------------------------
(***************************************************************************)
(* RegisterFactory.                                                        *)
(***************************************************************************)

\* The entries of s at the places P, in their order.
EntriesAt(s, P) ==
  LET Place(i) == CHOOSE n \in P : Cardinality({m \in P : m <= n}) = i
  IN  [i \in 1..Cardinality(P) |-> s[Place(i)]]

\* A spelling is a record [dot, name, upper]; the dot and the case are dropped.
NormalizeExtension(spelling) == spelling.name

\* How many of f's spellings are of an extension; an empty one is skipped.
Listings(f, extension) ==
  Cardinality({i \in DOMAIN Extensions[f] : NormalizeExtension(Extensions[f][i]) = extension})

ListedUnder(f) == {NormalizeExtension(Extensions[f][i]) : i \in DOMAIN Extensions[f]} \ {""}

\* A faulty form of ByPriority: the list is not sorted again.
InOrder(ids, copies, byId) == ids \o copies

\* push_back and stable_sort of a sorted list, once for each copy of an id: a copy comes
\* behind the one before it, and behind its equals.
ByPriority(ids, copies, byId) ==
  LET Above == {i \in DOMAIN ids : Priority[byId[ids[i]]] >= Priority[byId[copies[1]]]}
  IN  EntriesAt(ids, Above) \o copies \o EntriesAt(ids, DOMAIN ids \ Above)

\* The extension lists with f added to those of its extensions, once for every spelling.
AddToLists(f, byId, byExtension) ==
  [e \in DOMAIN byExtension \cup ListedUnder(f) |->
     LET ids    == IF e \in DOMAIN byExtension THEN byExtension[e] ELSE <<>>
         copies == [i \in 1..Listings(f, e) |-> Id[f]]
     IN  IF e \in ListedUnder(f) THEN ByPriority(ids, copies, byId) ELSE ids]

WithFactory(f, byId) ==
  [id \in DOMAIN byId \cup {Id[f]} |-> IF id = Id[f] THEN f ELSE byId[id]]

AddFactory(f) ==
  /\ Id[f] \notin DOMAIN factoriesById
  /\ factoriesById' = WithFactory(f, factoriesById)
  /\ factoriesByExtension' = AddToLists(f, factoriesById', factoriesByExtension)

\* By the host; a factory whose id is taken is refused.
RegisterFactory(f) == AddFactory(f) /\ UNCHANGED builtIns

\* RegisterBuiltInDecoders: a call_once that goes on though the host has taken the
\* id, and is not repeated when the host removes what it registered.
RegisterBuiltIn ==
  LET f == BuiltIn[builtIns + 1]
  IN  /\ builtIns < Len(BuiltIn)
      /\ builtIns' = builtIns + 1
      /\ \/ AddFactory(f)
         \/ /\ Id[f] \in DOMAIN factoriesById
            /\ UNCHANGED <<factoriesById, factoriesByExtension>>

(***************************************************************************)
(* UnregisterFactory.                                                      *)
(***************************************************************************)

\* A faulty form of WithoutId: one entry of the list is removed.
WithoutFirst(ids, id) == RemoveFirst(ids, id)

WithoutId(ids, id) == EntriesAt(ids, {i \in DOMAIN ids : ids[i] # id})

UnregisterFactory(id) ==
  /\ id \in DOMAIN factoriesById
  /\ factoriesById' = [other \in DOMAIN factoriesById \ {id} |-> factoriesById[other]]
  /\ factoriesByExtension' =
       [extension \in {e \in DOMAIN factoriesByExtension :
                         WithoutId(factoriesByExtension[e], id) # <<>>} |->
          WithoutId(factoriesByExtension[extension], id)]
  /\ UNCHANGED builtIns

-----------------------------------------------------------------------------
(***************************************************************************)
(* GetCandidateFactories: those listed under the extension, then all the   *)
(* others by priority; in an order of its own among equals, that of a      *)
(* hash table.                                                             *)
(***************************************************************************)
Sorted(factories) ==
  \A i, j \in DOMAIN factories : i < j => Priority[factories[i]] >= Priority[factories[j]]

Qualifies(f, extension, purpose, header) ==
  purpose \in Purposes[f] /\ Probe(f, header, extension)

\* A faulty form of FirstOfEach: a factory listed twice is tried twice.
EveryOne(ids) == ids

FirstOfEach(ids) == EntriesAt(ids, {i \in DOMAIN ids : \A j \in 1..(i - 1) : ids[j] # ids[i]})

CandidateFactories(extension, purpose, header) ==
  LET ids       == FirstOfEach(IdsFor(extension))
      factories == [i \in DOMAIN ids |-> factoriesById[ids[i]]]
      listed    == EntriesAt(factories, {i \in DOMAIN factories :
                                           Qualifies(factories[i], extension, purpose, header)})
      others    == {f \in Registered \ ToSet(listed) : Qualifies(f, extension, purpose, header)}
  IN  {listed \o rest : rest \in {order \in SetToSeqs(others) : Sorted(order)}}

-----------------------------------------------------------------------------
(***************************************************************************)
(* Properties.                                                             *)
(***************************************************************************)
EveryExtension == UNION {ListedUnder(f) : f \in Factory}

Claims(f, extension) == extension \in ListedUnder(f)

\* The two tables agree after every sequence of registrations and removals, an id
\* that is registered again with another factory and a factory that spells one
\* extension twice included: a list holds the registered factories that claim its
\* extension, the highest priority first, and an extension is supported when some
\* registered factory claims it.
RegistryConsistent ==
  /\ \A id \in DOMAIN factoriesById : Id[factoriesById[id]] = id
  /\ \A extension \in EveryExtension :
       LET ids == IdsFor(extension)
       IN  /\ ToSet(ids) = {Id[f] : f \in {g \in Registered : Claims(g, extension)}}
           /\ Sorted([i \in DOMAIN ids |-> factoriesById[ids[i]]])
           /\ IsSupportedExtension(extension) <=>
                \E f \in Registered : Claims(f, extension)
================================================================================
