----------------------------- MODULE TileLayers -----------------------------
(* Tile layers on the Canvas2D backend (renderer/src/canvas/canvas2d-renderer.ts)*)
(* over the textures: a layer is painted once into an offscreen canvas, kept     *)
(* under the layer's id, and copied from there every frame. One renderer draws   *)
(* every map of the session; the frame (runtime/src/map-scene.ts, renderScene)   *)
(* registers the tilesets and then draws the layers of its map.                  *)
EXTENDS Textures

CONSTANTS
    Map, FirstMap,
    LayersOf, TilesetOf,   \* a map's layers and its tileset
    Budget                 \* the largest layer that is cached

ASSUME LayersAssumption ==
    /\ FirstMap \in Map /\ Budget \in Nat
    /\ TilesetOf \in [Map -> Range(Tileset)]
    /\ \A m \in Map : \A k, l \in LayersOf[m] : k.id = l.id => k = l

VARIABLES
    map,        \* the map on show
    tileLayerCache,      \* tileLayerCache: a layer id to what was painted, and for what
    screen      \* ghost: what the last frame painted for each layer id

layerVars == <<map, tileLayerCache, screen>>
tileVars == <<textureVars, layerVars>>

LayerIds == UNION {{l.id : l \in LayersOf[m]} : m \in Map}
Nothing == << >>       \* an absent entry, an unpainted layer

LayersInit ==
    /\ TexturesInit /\ map = FirstMap
    /\ tileLayerCache = [i \in LayerIds |-> Nothing] /\ screen = [i \in LayerIds |-> Nothing]

-----------------------------------------------------------------------------
\* The tiles of layer l, cut from the texture by the grid it has now.
Painted(l, id) == [data |-> l.data, opacity |-> l.opacity, image |-> ImageWith(id)]

Fresh(entry, l, id) ==
    entry # Nothing /\ entry.revision = AtlasRevision(id) /\ entry.size = l.size

\* getLayerCache: Nothing when the layer is too large for it.
Entry(l, id) ==
    IF l.size > Budget THEN Nothing
    ELSE IF Fresh(tileLayerCache[l.id], l, id) THEN tileLayerCache[l.id]
    ELSE [revision |-> AtlasRevision(id), size |-> l.size, pixels |-> Painted(l, id)]

\* renderScene's tile part: register, then draw with the bindings that were there.
\* A layer whose texture is not ready is left out, as is one that is not visible.
DrawLayers ==
    /\ NoMicrotask /\ RegisterAll
    /\ LET id == binding[TilesetOf[map]]
           toDraw == {l \in LayersOf[map] : l.visible /\ Loaded(id)}
           layer(i) == CHOOSE l \in toDraw : l.id = i
           entry(i) == Entry(layer(i), id)
           isDrawn(i) == \E l \in toDraw : l.id = i
       IN  /\ screen' = [i \in LayerIds |->
                  IF ~isDrawn(i) THEN Nothing
                  ELSE IF entry(i) = Nothing THEN Painted(layer(i), id) ELSE entry(i).pixels]
           /\ tileLayerCache' = [i \in LayerIds |->
                  IF isDrawn(i) /\ entry(i) # Nothing THEN entry(i) ELSE tileLayerCache[i]]
    /\ UNCHANGED map

\* The player goes to another map; the renderer stays.
Transfer(m) ==
    /\ NoMicrotask /\ map' = m /\ m # map
    /\ screen' = [i \in LayerIds |-> Nothing]
    /\ UNCHANGED <<tileLayerCache, textureVars>>

LayersNext ==
    \/ Background /\ UNCHANGED layerVars
    \/ DrawLayers
    \/ \E m \in Map : Transfer(m)

LayersSpec == LayersInit /\ [][LayersNext]_tileVars

-----------------------------------------------------------------------------
\* Textures, bindings and caches keep their types (texture-manager.ts:144-155,
\* tileset-registry.ts:17-22).
LayersTypeOK ==
    /\ DOMAIN images \subseteq 1..(nextId - 1) /\ \A id \in DOMAIN images : images[id].url \in Url
    /\ byUrl \in [Url -> 0..(nextId - 1)] /\ loading \subseteq Url
    /\ Range(waiting) \subseteq Tilesets /\ IsInjective(waiting)
    /\ binding \in [Tilesets -> {Absent} \union 0..(nextId - 1)]
    /\ map \in Map

\* However loads, failures and disposals interleave, the url index and the atlas
\* name the same textures, one for each url: no second copy that nothing can
\* release, no url that leads to a texture that is gone (load, dispose).
OneTexturePerUrl ==
    /\ \A id \in DOMAIN images : byUrl[images[id].url] = id
    /\ \A u \in Url : byUrl[u] # 0 => Loaded(byUrl[u]) /\ images[byUrl[u]].url = u
    /\ \A u \in loading : byUrl[u] = 0

\* No frame shows a layer that was cut from an image other than its tileset's, or
\* by another grid: not while images come and go, not from the cache (register,
\* drawTileLayer, getLayerCache).
CutFromItsTileset ==
    \A l \in LayersOf[map] : screen[l.id] # Nothing =>
        /\ screen[l.id].image.url = ImageOf[TilesetOf[map]]
        /\ screen[l.id].image.grid = GridOf[TilesetOf[map]]

\* Projects for which it is promised: tilesets that share an image have one grid, and
\* layers of one id the same tileset.
OneGridPerImage == \A t, u \in Tilesets : ImageOf[t] = ImageOf[u] => GridOf[t] = GridOf[u]
OneTilesetPerLayer ==
    \A m, n \in Map : \A k \in LayersOf[m], l \in LayersOf[n] :
        k.id = l.id => TilesetOf[m] = TilesetOf[n]

\* One texture for each url, and every layer on the screen cut from its own image by its
\* own grid (texture-manager.ts, tileset-registry.ts, canvas2d-renderer.ts).
CutByItsTileset == LayersTypeOK /\ CutFromItsTileset /\ OneTexturePerUrl

\* tileset-registry.ts:5-6 "The registry loads the tileset's atlas image through
\* the TextureManager and binds its grid": a bound tileset is cut by its own grid.
GridIsBound ==
    \A t \in Tilesets : Loaded(binding[t]) => ImageWith(binding[t]).grid = GridOf[t]

\* canvas2d-renderer.ts:271 "Returns the offscreen cache for a static tile layer,
\* building it on first use": what a frame shows for a layer are its own tiles.
ShowsTheLayer ==
    \A l \in LayersOf[map] : screen[l.id] # Nothing => screen[l.id].data = l.data
=============================================================================
