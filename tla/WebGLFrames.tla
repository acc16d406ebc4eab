----------------------------- MODULE WebGLFrames ----------------------------
(* A frame on the WebGL backend (renderer/src/webgl/webgl-renderer.ts, batch.ts, *)
(* pool.ts): draw calls stage quads that share a texture and are drawn together, *)
(* when the texture changes, the batch is full or the frame ends. Only then is   *)
(* the texture looked at again, and uploaded when its revision is not the one    *)
(* that was. Between frames the atlas changes and the context comes and goes.    *)
EXTENDS WebGLContext

CONSTANTS
    Image,             \* textures of the atlas
    Text,              \* texts to draw
    MaxQuads,          \* the batch's capacity
    Turn,              \* transforms
    MaxCalls, MaxRevision, MaxTexts   \* bounds: quads of a frame, atlases, texts

ASSUME FramesAssumption ==
    /\ {MaxQuads, MaxCalls, MaxRevision, MaxTexts} \subseteq Nat /\ MaxQuads > 0
    /\ Image \intersect {"white", "text", ""} = {}

VARIABLES
    atlas,      \* the texture manager's revision
    glTex,      \* glTextures and glTextureRevisions: what was uploaded, and when
    texts,      \* textRevision
    batchTex, staged,  \* SpriteBatch: its texture and quads
    stack,      \* transformStack
    spare,      \* corners of the pooled SpriteDrawEntry, << >> for none
    inFrame,    \* between beginFrame and endFrame; nothing else runs meanwhile
    asked, shown       \* ghosts: the quads of this frame as called for and as drawn

frameVars == <<atlas, glTex, texts, batchTex, staged, stack, spare, inFrame, asked, shown>>
glVars == <<contextVars, frameVars>>

WhiteId == "white"     \* WHITE_TEXTURE_ID
TextId == "text"       \* TEXT_TEXTURE_ID
Blank == <<"blank">>      \* one white pixel
Void == <<"void">>       \* a texture of a context that is gone
Texture == Image \union {WhiteId, TextId}
None == << >>
NoTexture == ""        \* batch.textureId: null

FramesInit ==
    /\ ContextInit
    /\ atlas = 1 /\ glTex = [t \in Texture |-> None] /\ texts = 0
    /\ batchTex = NoTexture /\ staged = << >> /\ stack = << >> /\ spare = << >>
    /\ inFrame = FALSE /\ asked = << >> /\ shown = << >>

\* getRevision and getSource of the texture manager.
Revision(t) == IF t \in Image THEN atlas ELSE 0
Source(t) == IF t \in Image THEN <<t, atlas>> ELSE Blank

-----------------------------------------------------------------------------
\* ensureTexture.
EnsureTexture(gl, t, pixels, revision, force) ==
    IF force \/ gl[t] = None \/ gl[t].revision # revision
    THEN [gl EXCEPT ![t] = [revision |-> revision, pixels |-> pixels,
                            from |-> IF gl[t] = None THEN generation ELSE gl[t].from]]
    ELSE gl

\* flushBatch, on the values of a call under way: the quads are drawn with what
\* their texture holds by now.
Flush(b) ==
    IF b.staged = << >> THEN [b EXCEPT !.tex = NoTexture]
    ELSE LET gl == EnsureTexture(b.gl, b.tex, Source(b.tex), Revision(b.tex), FALSE)
             saw == IF gl[b.tex].from = generation THEN gl[b.tex].pixels ELSE Void
             quads == [i \in DOMAIN b.staged |->
                          [want |-> b.staged[i].want, under |-> b.staged[i].under, saw |-> saw]]
         IN  [tex |-> NoTexture, staged |-> << >>, gl |-> gl, shown |-> b.shown \o quads]

\* SpriteBatch.push.
Push(b, q) ==
    LET other == IF b.tex \notin {NoTexture, q.tex} THEN Flush(b) ELSE b
        ready == IF Len(other.staged) >= MaxQuads THEN Flush(other) ELSE other
    IN  [ready EXCEPT !.tex = q.tex, !.staged = Append(@, q)]

PushTimes(b, q, n) ==
    LET pushed[k \in 0..n] == IF k = 0 THEN b ELSE Push(pushed[k - 1], q)
    IN  pushed[n]

\* A mutant: the entry goes back to the pool as it is.
ReleaseDirty(corners) == spare' = corners

\* ObjectPool.release resets the entry.
Release(corners) == spare' = << >>

\* pushQuadRaw, n times for one texture: the entry has the corners of the scene's
\* transform if there is one, else those it came with from the pool.
PushQuads(t, want, n, gl) ==
    LET corners == IF stack = << >> THEN spare ELSE stack
        quad == [tex |-> t, want |-> want, under |-> corners]
        before == [tex |-> batchTex, staged |-> staged, gl |-> gl, shown |-> shown]
        after == PushTimes(before, quad, n)
    IN  /\ batchTex' = after.tex /\ staged' = after.staged
        /\ glTex' = after.gl /\ shown' = after.shown
        /\ asked' = asked \o [i \in 1..n |-> [tex |-> t, want |-> want, under |-> stack]]
        /\ Release(corners)

Drawing == inFrame /\ ~lost
MayDraw(n) == Drawing /\ Len(asked) + n <= MaxCalls

\* drawSprite and drawTile (n = 1), drawTileLayer (n visible tiles).
DrawImage(t, n) ==
    /\ MayDraw(n) /\ PushQuads(t, <<t, atlas>>, n, glTex)
    /\ UNCHANGED <<contextVars, atlas, texts, stack, inFrame>>

\* drawRect: one quad to fill, four for the stroke.
DrawRect(n) ==
    /\ MayDraw(n)
    /\ PushQuads(WhiteId, Blank, n, EnsureTexture(glTex, WhiteId, Blank, 0, FALSE))
    /\ UNCHANGED <<contextVars, atlas, texts, stack, inFrame>>

\* drawText: the text is rasterised and uploaded at once, its quad is staged.
DrawText(s) ==
    /\ MayDraw(1) /\ texts < MaxTexts /\ texts' = texts + 1
    /\ PushQuads(TextId, <<s>>, 1, EnsureTexture(glTex, TextId, <<s>>, texts + 1, TRUE))
    /\ UNCHANGED <<contextVars, atlas, stack, inFrame>>

PushTransform(t) ==
    /\ inFrame /\ stack = << >> /\ stack' = <<t>>
    /\ UNCHANGED <<contextVars, atlas, glTex, texts, batchTex, staged, spare, inFrame, asked, shown>>

PopTransform ==
    /\ inFrame /\ stack # << >> /\ stack' = Front(stack)
    /\ UNCHANGED <<contextVars, atlas, glTex, texts, batchTex, staged, spare, inFrame, asked, shown>>

\* beginFrame; with the context lost it returns at once.
BeginFrame ==
    /\ OnWebGL /\ ~inFrame /\ inFrame' = TRUE
    /\ asked' = << >> /\ shown' = << >>
    /\ IF lost THEN UNCHANGED <<batchTex, staged, stack>>
       ELSE batchTex' = NoTexture /\ staged' = << >> /\ stack' = << >>
    /\ UNCHANGED <<contextVars, atlas, glTex, texts, spare>>

EndFrame ==
    /\ inFrame /\ inFrame' = FALSE
    /\ IF lost THEN UNCHANGED <<batchTex, staged, glTex, shown>>
       ELSE LET b == Flush([tex |-> batchTex, staged |-> staged, gl |-> glTex, shown |-> shown])
            IN  batchTex' = b.tex /\ staged' = b.staged /\ glTex' = b.gl /\ shown' = b.shown
    /\ UNCHANGED <<contextVars, atlas, texts, stack, spare, asked>>

-----------------------------------------------------------------------------
\* An image arrived, or a grid was set: the atlas is rebuilt.
AtlasChanges ==
    /\ ~inFrame /\ atlas < MaxRevision /\ atlas' = atlas + 1
    /\ UNCHANGED <<contextVars, glTex, texts, batchTex, staged, stack, spare, inFrame, asked, shown>>

\* initGL and dispose: what was uploaded is forgotten.
TexturesForgotten == glTex' = [t \in Texture |-> None]

\* The restored context is set up.
Restored ==
    /\ ~inFrame /\ ContextRestored /\ TexturesForgotten
    /\ UNCHANGED <<atlas, texts, batchTex, staged, stack, spare, inFrame, asked, shown>>

\* dispose, alone or after an unrecoverable loss.
Disposed ==
    /\ ~inFrame /\ TexturesForgotten
    /\ Dispose \/ \E ok \in BOOLEAN : RestoreFails(ok) \/ (lost /\ WatchdogFires(ok))
    /\ batchTex' = NoTexture /\ staged' = << >> /\ stack' = << >>
    /\ UNCHANGED <<atlas, texts, spare, inFrame, asked, shown>>

Quiet ==
    /\ ~inFrame /\ UNCHANGED frameVars
    /\ \/ \E a \in SUBSET Backend : Create(a)
       \/ \E k \in Backend : CreateFromContext(k)
       \/ ContextLost
       \/ ~lost /\ WatchdogFires(FALSE)

FramesNext ==
    \/ BeginFrame \/ EndFrame \/ PopTransform \/ AtlasChanges
    \/ Restored \/ Disposed \/ Quiet
    \/ \E t \in Turn : PushTransform(t)
    \/ \E t \in Image, n \in 1..MaxCalls : DrawImage(t, n)
    \/ \E n \in {1, 4} : DrawRect(n)
    \/ \E s \in Text : DrawText(s)

FramesSpec == FramesInit /\ [][FramesNext]_glVars

-----------------------------------------------------------------------------
\* The batch never exceeds its buffer, and an empty one has no texture (batch.ts).
FramesTypeOK ==
    /\ held \in Backend \union {Unmade} /\ generation \in 0..MaxLosses
    /\ Len(staged) <= MaxQuads /\ (staged = << >> <=> batchTex = NoTexture)
    /\ batchTex \in Texture \union {NoTexture}

\* Every quad of a frame is drawn once, in the order of the calls and under the
\* transform of its call, however the batches break; none is left when the frame
\* is over (push, flush, pushQuadRaw, the entry pool).
DrawnInOrder ==
    /\ Len(shown) + Len(staged) = Len(asked)
    /\ \A i \in DOMAIN asked :
          LET q == IF i <= Len(shown) THEN shown[i] ELSE staged[i - Len(shown)]
          IN  q.want = asked[i].want /\ q.under = asked[i].under
    /\ ~inFrame => staged = << >>

\* A quad cut from the atlas is drawn with that very atlas, and a rectangle in its
\* plain colour: not with an older upload, nor with a texture of a context that is
\* gone (ensureTexture, initGL).
ImagesAreCurrent ==
    \A i \in DOMAIN shown : asked[i].tex # TextId => shown[i].saw = asked[i].want

\* Every quad of a frame is drawn once, in the order of the calls, with the image and
\* the context of the moment, and a lost context is swapped for one renderer only.
FrameIsAsAsked == FramesTypeOK /\ DrawnInOrder /\ ImagesAreCurrent /\ SwapsOnce

\* webgl-renderer.ts:431 "1x1 white placeholder so sampling never errors before an
\* upload": a text that was uploaded is not replaced by it.
TextIsShown ==
    \A i \in DOMAIN shown : asked[i].tex = TextId => shown[i].saw # Blank
=============================================================================
