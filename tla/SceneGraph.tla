------------------------------ MODULE SceneGraph ------------------------------
(* The scene graph (core/src/scene/scene-graph.ts) over the entity tree and the  *)
(* components of core/src/entity/game-object.ts and component.ts. Several        *)
(* objects may carry the same id: the graph is what keeps ids unique. An         *)
(* operation that throws is an action too, with the changes made before the      *)
(* throw. Callers build a subtree before they add it, and change what is in the  *)
(* scene through the scene.                                                      *)
EXTENDS Naturals, Sequences, SequencesExt, FiniteSets

CONSTANTS
    Node, Root,        \* GameObjects, one of them the scene's root
    IdOf,              \* their ids
    Component, TypeOf, \* components and their types
    Shared,            \* a component may be offered to a second object
    Nobody             \* the null of parent, owner and the registry

ASSUME SceneAssumption ==
    /\ Shared \in BOOLEAN /\ Root \in Node /\ Nobody \notin Node
    /\ IdOf \in [Node -> STRING]
    /\ \A n \in Node \ {Root} : IdOf[n] # IdOf[Root]

VARIABLES
    parent, children,  \* the tree: GameObject.parent and GameObject.children
    byId,              \* the registry: an id to its object
    has,               \* GameObject.components: a set of components of each object
    owner,             \* Component._owner
    gone,              \* ghost: objects the last step removed from the scene
    thrown             \* ghost: an addEntity has thrown, with its object half indexed

graphVars == <<parent, children, byId, has, owner, gone, thrown>>

Ids == {IdOf[n] : n \in Node}

GraphInit ==
    /\ parent = [n \in Node |-> Nobody] /\ children = [n \in Node |-> << >>]
    /\ byId = [i \in Ids |-> IF i = IdOf[Root] THEN Root ELSE Nobody]
    /\ has = [n \in Node |-> {}] /\ owner = [c \in Component |-> Nobody]
    /\ gone = {} /\ thrown = FALSE

\* What traverse visits: an object and its descendants.
Subtree(n) == {m \in Node : \A S \in SUBSET Node :
                 n \in S /\ (\A p \in S : ToSet(children[p]) \subseteq S) => m \in S}
InScene == Subtree(Root)

\* Depth first: traverse visits m before k in every tree that holds both.
Before(m, k) ==
    \/ k \in Subtree(m) \ {m}
    \/ \E p \in Node : \E i, j \in DOMAIN children[p] :
         i < j /\ m \in Subtree(children[p][i]) /\ k \in Subtree(children[p][j])

-----------------------------------------------------------------------------
\* removeChild: the child is cut out of its parent's list.
Without(n) == [p \in Node |-> IF p = parent[n] THEN RemoveFirst(children[p], n) ELSE children[p]]

\* addChild takes the child away from its parent, unless this is its parent.
Adopt(p, n) ==
    \/ parent[n] = p /\ UNCHANGED <<parent, children>>
    \/ /\ parent[n] # p
       /\ parent' = [parent EXCEPT ![n] = p]
       /\ children' = [Without(n) EXCEPT ![p] = Append(@, n)]

\* Building a subtree outside of the scene; no object becomes its own ancestor.
AddChild(p, n) ==
    /\ p \notin InScene /\ n \notin InScene /\ p \notin Subtree(n)
    /\ Adopt(p, n) /\ gone' = {}
    /\ UNCHANGED <<byId, has, owner, thrown>>

\* A mutant: the object is registered without its descendants.
AddEntityAlone(n, p) ==
    /\ p \in InScene \ Subtree(n) /\ byId[IdOf[n]] = Nobody
    /\ Adopt(p, n) /\ gone' = {}
    /\ byId' = [byId EXCEPT ![IdOf[n]] = n]
    /\ UNCHANGED <<has, owner, thrown>>

\* index throws at an object whose id another one has, registered before or on the way.
Clashing(nodes) ==
    {k \in nodes : \/ byId[IdOf[k]] \notin {Nobody, k}
                   \/ \E m \in nodes \ {k} : IdOf[m] = IdOf[k] /\ Before(m, k)}

\* addEntity: the object is attached, then its subtree indexed up to the first
\* id that is taken; there index throws, and what was done stays done.
AddEntity(n, p) ==
    /\ p \in InScene \ Subtree(n) /\ byId[IdOf[n]] = Nobody
    /\ Adopt(p, n) /\ gone' = {}
    /\ LET clashing == Clashing(Subtree(n))
           indexed == {m \in Subtree(n) : \A k \in clashing : m # k /\ ~Before(k, m)}
       IN  /\ byId' = [i \in Ids |-> IF \E m \in indexed : IdOf[m] = i
                                     THEN CHOOSE m \in indexed : IdOf[m] = i ELSE byId[i]]
           /\ thrown' = (thrown \/ clashing # {})
    /\ UNCHANGED <<has, owner>>

\* destroy: the object leaves its parent's list; its subtree is taken apart.
Destroyed(n, nodes) ==
    /\ parent' = [m \in Node |-> IF m \in nodes THEN Nobody ELSE parent[m]]
    /\ children' = [m \in Node |-> IF m \in nodes THEN << >> ELSE Without(n)[m]]
    /\ has' = [m \in Node |-> IF m \in nodes THEN {} ELSE has[m]]
    /\ owner' = [c \in Component |-> IF \E m \in nodes : c \in has[m] THEN Nobody ELSE owner[c]]
    /\ gone' = nodes

\* removeEntity: the subtree leaves the registry by its ids and is destroyed.
RemoveEntity(i) ==
    /\ byId[i] \notin {Nobody, Root}
    /\ LET nodes == Subtree(byId[i])
       IN  /\ byId' = [j \in Ids |-> IF \E n \in nodes : IdOf[n] = j THEN Nobody ELSE byId[j]]
           /\ Destroyed(byId[i], nodes)
    /\ UNCHANGED thrown

\* addComponent: one of each type. attach throws for a component of another
\* object, after it was put into the map.
AddComponent(n, c) ==
    /\ \A d \in has[n] : TypeOf[d] # TypeOf[c]
    /\ owner[c] = Nobody \/ Shared
    /\ has' = [has EXCEPT ![n] = @ \union {c}]
    /\ owner' = IF owner[c] \in {Nobody, n} THEN [owner EXCEPT ![c] = n] ELSE owner
    /\ gone' = {}
    /\ UNCHANGED <<parent, children, byId, thrown>>

RemoveComponent(n, c) ==
    /\ c \in has[n]
    /\ has' = [has EXCEPT ![n] = @ \ {c}] /\ owner' = [owner EXCEPT ![c] = Nobody]
    /\ gone' = {}
    /\ UNCHANGED <<parent, children, byId, thrown>>

GraphNext ==
    \/ \E n \in Node : \E p \in Node : n # Root /\ (AddChild(p, n) \/ AddEntity(n, p))
    \/ \E i \in Ids : RemoveEntity(i)
    \/ \E n \in Node, c \in Component : AddComponent(n, c) \/ RemoveComponent(n, c)

GraphSpec == GraphInit /\ [][GraphNext]_graphVars

-----------------------------------------------------------------------------
\* The tree and the registry keep their types; the registry files an object under
\* its own id (scene-graph.ts, byId).
GraphTypeOK ==
    /\ parent \in [Node -> Node \union {Nobody}] /\ children \in [Node -> Seq(Node)]
    /\ \A i \in Ids : byId[i] # Nobody => IdOf[byId[i]] = i
    /\ \A n \in Node, c, d \in Component : {c, d} \subseteq has[n] /\ TypeOf[c] = TypeOf[d] => c = d

\* Parent and children are two views of one tree, after any sequence of adding,
\* re-parenting and destroying (addChild, removeChild, destroy).
TreeIsOne ==
    /\ \A n, p \in Node : parent[n] = p <=> Contains(children[p], n)
    /\ \A p \in Node : IsInjective(children[p])

\* The registry knows the objects of the scene: nothing that left it can still be
\* looked up, and nothing in it is missed until an addEntity has thrown half-way
\* (addEntity, removeEntity, index).
IndexIsTree == LET known == {byId[i] : i \in Ids} \ {Nobody}
               IN  known \subseteq InScene /\ (thrown \/ known = InScene)

\* "so nothing dangles" (game-object.ts:182): what a removal took out is alone, bare,
\* and no component names it.
NothingDangles ==
    \A n \in gone : /\ parent[n] = Nobody /\ children[n] = << >> /\ has[n] = {}
                    /\ \A c \in Component : owner[c] # n

\* The registry and the tree are one, and what a removal took out is alone and bare
\* (addEntity, removeEntity, destroy).
IndexFollowsTree == GraphTypeOK /\ TreeIsOne /\ IndexIsTree /\ NothingDangles

\* "Unique entity id within the scene" (game-object.ts:32).
IdsAreUnique == \A m, n \in InScene : IdOf[m] = IdOf[n] => m = n

\* component.ts:25 "The entity this component is attached to": the entity that has
\* it.
OwnerHasIt == \A n \in Node, c \in Component : c \in has[n] => owner[c] = n
=============================================================================
