------------------------------ MODULE Textures ------------------------------
(* The texture manager (renderer/src/texture-manager.ts) and the tileset        *)
(* registry (tileset-registry.ts). Images load in the background and join one   *)
(* atlas; every change of the atlas is a new revision. A tileset is registered  *)
(* by the frame that wants to draw it and is bound to its texture in a          *)
(* microtask, after the image came.                                             *)
EXTENDS Naturals, Sequences, SequencesExt, FiniteSets

CONSTANTS
    Url,
    Tileset,           \* a sequence: the map scene's tilesets, in its order
    ImageOf, GridOf,   \* the image of a tileset, and its grid of frames
    WholeImage,        \* the grid an image has until setGrid: one column, one row
    MaxId              \* bound: textures ever created before the last dispose

ASSUME TexturesAssumption ==
    /\ Tileset \in Seq(Range(Tileset)) /\ IsInjective(Tileset) /\ MaxId \in Nat
    /\ ImageOf \in [Range(Tileset) -> Url]
    /\ DOMAIN GridOf = Range(Tileset)

VARIABLES
    images,     \* the loaded images by texture
    byUrl,      \* a url to its texture, 0 when there is none
    loading,    \* urls in flight
    waiting,    \* tilesets whose image is in flight, in the order they asked
    resolved,   \* microtasks: <<tileset, texture>> of loads that were answered
    binding,    \* TilesetRegistry.bindings: Absent, Unready, or a texture
    revision, nextId

textureVars == <<images, byUrl, loading, waiting, resolved, binding, revision, nextId>>

Tilesets == Range(Tileset)
Absent == 0 - 1
Unready == 0           \* textureId: ""

TexturesInit ==
    /\ images = << >> /\ byUrl = [u \in Url |-> 0] /\ loading = {}
    /\ waiting = << >> /\ resolved = << >>
    /\ binding = [t \in Tilesets |-> Absent]
    /\ revision = 0 /\ nextId = 1

Loaded(id) == id \in DOMAIN images
\* What getFrame cuts its frames from.
ImageWith(id) == images[id]
\* getRevision.
AtlasRevision(id) == IF Loaded(id) THEN revision ELSE 0

-----------------------------------------------------------------------------
\* load, for the urls that are neither known nor in flight.
Load(urls) == loading' = loading \union {u \in urls : byUrl[u] = 0}

\* Someone else's image: a sprite sheet.
LoadImage(u) ==
    /\ byUrl[u] = 0 /\ u \notin loading
    /\ Load({u})
    /\ UNCHANGED <<images, byUrl, waiting, resolved, binding, revision, nextId>>

\* The elements of s that are in T, in their order.
Kept(s, T) ==
    LET kept[n \in 0..Len(s)] ==
            IF n = 0 THEN << >>
            ELSE IF s[n] \in T THEN Append(kept[n - 1], s[n]) ELSE kept[n - 1]
    IN  kept[Len(s)]

\* register, for every tileset of the scene, as the frame does; the ones already
\* known are left alone.
RegisterAll ==
    LET absent == Kept(Tileset, {t \in Tilesets : binding[t] = Absent})
        known == {t \in Tilesets : byUrl[ImageOf[t]] # 0}
        cached == Kept(absent, known)
    IN  /\ binding' = [t \in Tilesets |-> IF binding[t] = Absent THEN Unready ELSE binding[t]]
        /\ Load({ImageOf[t] : t \in Range(absent)})
        /\ waiting' = waiting \o Kept(absent, Tilesets \ known)
        /\ resolved' = resolved \o [i \in DOMAIN cached |-> <<cached[i], byUrl[ImageOf[cached[i]]]>>]
        /\ UNCHANGED <<images, byUrl, revision, nextId>>

NoMicrotask == resolved = << >>   \* a task starts when the microtasks are done

WhoseImage(u) == {t \in Tilesets : ImageOf[t] = u}
ForUrl(u) == Kept(waiting, WhoseImage(u))
NotForUrl(u) == Kept(waiting, Tilesets \ WhoseImage(u))

\* The image of u is there: it gets the next texture id and joins the atlas.
ImageArrives(u) ==
    /\ NoMicrotask /\ u \in loading
    /\ images' = [i \in DOMAIN images \union {nextId} |->
                   IF i = nextId THEN [url |-> u, grid |-> WholeImage] ELSE images[i]]
    /\ byUrl' = [byUrl EXCEPT ![u] = nextId]
    /\ resolved' = [i \in DOMAIN ForUrl(u) |-> <<ForUrl(u)[i], nextId>>]
    /\ waiting' = NotForUrl(u) /\ loading' = loading \ {u}
    /\ nextId' = nextId + 1 /\ revision' = revision + 1
    /\ UNCHANGED binding

\* It cannot be loaded: the registry forgets the tilesets that wanted it, so that
\* the next frame asks again.
ImageFails(u) ==
    /\ NoMicrotask /\ u \in loading /\ loading' = loading \ {u}
    /\ waiting' = NotForUrl(u)
    /\ binding' = [t \in Tilesets |-> IF Contains(ForUrl(u), t) THEN Absent ELSE binding[t]]
    /\ UNCHANGED <<images, byUrl, resolved, revision, nextId>>

\* setGrid of a texture that may be unknown, with the atlas rebuilt.
SetGrid(id, grid) ==
    /\ images' = [i \in DOMAIN images |-> IF i = id THEN [images[i] EXCEPT !.grid = grid] ELSE images[i]]
    /\ revision' = IF Loaded(id) THEN revision + 1 ELSE revision

\* A mutant: the tileset is bound and its grid forgotten.
BindOnly ==
    /\ resolved # << >> /\ resolved' = Tail(resolved)
    /\ binding' = [binding EXCEPT ![Head(resolved)[1]] = Head(resolved)[2]]
    /\ UNCHANGED <<images, revision, byUrl, loading, waiting, nextId>>

\* The registry's continuation: the grid is set, the tileset bound.
Bind ==
    /\ resolved # << >> /\ resolved' = Tail(resolved)
    /\ LET t == Head(resolved)[1]
           id == Head(resolved)[2]
       IN  SetGrid(id, GridOf[t]) /\ binding' = [binding EXCEPT ![t] = id]
    /\ UNCHANGED <<byUrl, loading, waiting, nextId>>

DisposeTexture(id) ==
    /\ NoMicrotask /\ nextId <= MaxId /\ Loaded(id)
    /\ images' = Restrict(images, DOMAIN images \ {id})
    /\ byUrl' = [byUrl EXCEPT ![images[id].url] = 0]
    /\ revision' = revision + 1
    /\ UNCHANGED <<loading, waiting, resolved, binding, nextId>>

Background ==
    \/ \E u \in Url : LoadImage(u) \/ ImageArrives(u) \/ ImageFails(u)
    \/ Bind
    \/ \E id \in DOMAIN images : DisposeTexture(id)
=============================================================================
