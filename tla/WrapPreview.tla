---------------------------- MODULE WrapPreview -----------------------------
(***************************************************************************)
(* The 3D previews of uploaded wraps (web/src/pages/CommunityWraps.tsx and *)
(* components/wraps/GodotRenderer.tsx): one hidden renderer serves all     *)
(* uploads by messages that do not say which of them they are about.  The  *)
(* button of a file works while others are uploaded, so several previews   *)
(* may be under way, each with a listener that hears every message.        *)
(* Timers lead from the scene to the texture to the capture, and give up   *)
(* in the end.  The renderer is external: it answers in the order it was   *)
(* asked, as late as it likes, or not at all.                              *)
(***************************************************************************)
EXTENDS Naturals, Sequences

CONSTANT Uploads    \* uploads in the order they are begun; a retry is one of its own

WrapPreviewAssumption == Uploads \in Nat \ {0}

VARIABLES
  stage,     \* of each upload: "no", "wait", "reading", "rendering", "sent"
  ready,     \* godotReadyRef
  phase,     \* the phase of each upload's closure
  timers,    \* pending timers: what they do, for which upload
  asked,     \* messages on their way to the renderer
  scene,     \* the renderer: the upload whose scene and whose texture it has
  texture,
  told,      \* messages on their way back
  preview,   \* the picture sent along: whose scene and texture, or none
  late,      \* something was given up while the renderer still owed an answer
  together   \* two previews were under way at once

vars == <<stage, ready, phase, timers, asked, scene, texture, told, preview, late, together>>

Upload == 1 .. Uploads
Whose == 0 .. Uploads
Message == [what : {"load", "texture", "capture", "loaded", "result", "error"},
            scene : Whose, texture : Whose]
Msg(w, s, t) == [what |-> w, scene |-> s, texture |-> t]
Picture == [scene : Whose, texture : Whose]
NoPicture == [scene |-> 0, texture |-> 0]

TypeOK ==
  /\ stage \in [Upload -> {"no", "wait", "reading", "rendering", "sent"}]
  /\ ready \in BOOLEAN /\ late \in BOOLEAN /\ together \in BOOLEAN
  /\ phase \in [Upload -> {"loading_scene", "applying_texture", "capturing"}]
  /\ timers \subseteq [what : {"scene", "texture", "capture"}, file : Upload]
  /\ asked \in Seq(Message) /\ told \in Seq(Message)
  /\ scene \in Whose /\ texture \in Whose
  /\ preview \in [Upload -> Picture]

Timer(w, f) == [what |-> w, file |-> f]
Owed == asked # <<>> \/ told # <<>> \/ \E t \in timers : t.what # "scene"
renderer == <<asked, scene, texture, told>>

\* generate3DPreview: the listeners of the previews under way
Listeners == {u \in Upload : stage[u] \in {"reading", "rendering"}}

GodotReady ==
  /\ ~ready
  /\ ready' = TRUE
  /\ UNCHANGED <<stage, phase, timers, renderer, preview, late, together>>

\* the button of one file, or the loop over all
Start(u) ==
  /\ stage[u] = "no" /\ \A v \in Upload : v < u => stage[v] # "no"
  /\ stage' = [stage EXCEPT ![u] = "wait"]
  /\ UNCHANGED <<ready, phase, timers, renderer, preview, late, together>>

\* The previews of us are over: their uploads are sent with the picture p.  What becomes
\* of a request (taken, refused, failed, not answered) is the matter of the uploader.
Ends(us, p) ==
  /\ stage' = [u \in Upload |-> IF u \in us THEN "sent" ELSE stage[u]]
  /\ preview' = [u \in Upload |-> IF u \in us THEN p ELSE preview[u]]

\* handleUpload, waitForGodotReady: for a minute, then without a preview; without one
\* also when the renderer does not have the model
WaitForGodotReady(u) ==
  /\ stage[u] = "wait"
  /\ \/ /\ ready
        /\ stage' = [stage EXCEPT ![u] = "reading"]
        /\ together' = (together \/ Listeners # {})
        /\ UNCHANGED preview
     \/ Ends({u}, NoPicture) /\ UNCHANGED together
  /\ UNCHANGED <<ready, phase, timers, renderer, late>>

\* reader.onload: the texture is known from here on
ReaderLoaded(u) ==
  /\ stage[u] = "reading"
  /\ stage' = [stage EXCEPT ![u] = "rendering"]
  /\ asked' = Append(asked, Msg("load", u, 0))
  /\ timers' = timers \cup {Timer("scene", u)}
  /\ UNCHANGED <<ready, phase, scene, texture, told, preview, late, together>>

\* ten seconds without a word of the scene: the texture goes on anyway
SceneTimer(f) ==
  /\ Timer("scene", f) \in timers
  /\ IF phase[f] = "loading_scene"
     THEN /\ phase' = [phase EXCEPT ![f] = "applying_texture"]
          /\ timers' = (timers \ {Timer("scene", f)}) \cup {Timer("texture", f)}
          /\ late' = TRUE
     ELSE timers' = timers \ {Timer("scene", f)} /\ UNCHANGED <<phase, late>>
  /\ UNCHANGED <<stage, ready, renderer, preview, together>>

TextureTimer(f) ==
  /\ Timer("texture", f) \in timers
  /\ asked' = Append(asked, Msg("texture", 0, f))
  /\ phase' = [phase EXCEPT ![f] = "capturing"]
  /\ timers' = (timers \ {Timer("texture", f)}) \cup {Timer("capture", f)}
  /\ UNCHANGED <<stage, ready, scene, texture, told, preview, late, together>>

\* capture() of the renderer's handle, after its two moves of the camera
CaptureTimer(f) ==
  /\ Timer("capture", f) \in timers
  /\ asked' = Append(asked, Msg("capture", 0, 0))
  /\ timers' = timers \ {Timer("capture", f)}
  /\ UNCHANGED <<stage, ready, phase, scene, texture, told, preview, late, together>>

\* The renderer; a loaded scene may be announced twice, as car_loaded and as
\* scene_loaded.
Godot ==
  /\ asked # <<>>
  /\ LET m == Head(asked) IN
       \/ m.what = "load" /\ scene' = m.scene /\ UNCHANGED texture
          /\ \E n \in 1 .. 2 :
               told' = told \o [k \in 1 .. n |-> Msg("loaded", m.scene, 0)]
       \/ m.what = "texture" /\ texture' = m.texture /\ UNCHANGED <<scene, told>>
       \/ m.what = "capture" /\ UNCHANGED <<scene, texture>>
          /\ told' \in {told, Append(told, Msg("result", scene, texture)),
                        Append(told, Msg("error", 0, 0))}
  /\ asked' = Tail(asked)
  /\ UNCHANGED <<stage, ready, phase, timers, preview, late, together>>

\* Mutant: every word of a scene starts the timer of the texture.
AnyPhase(f) == TRUE

FirstWord(f) == phase[f] = "loading_scene"

\* handler, of every preview under way: each takes the message for its own
Handler ==
  /\ told # <<>>
  /\ told' = Tail(told)
  /\ LET m == Head(told)
         first == {u \in Listeners : FirstWord(u)}
     IN \/ /\ m.what = "loaded"
           /\ phase' = [u \in Upload |-> IF u \in first THEN "applying_texture" ELSE phase[u]]
           /\ timers' = timers \cup {Timer("texture", u) :
                                       u \in {v \in first : stage[v] = "rendering"}}
           /\ UNCHANGED <<stage, preview>>
        \/ /\ m.what = "result"
           /\ Ends(Listeners, [scene |-> m.scene, texture |-> m.texture])
           /\ UNCHANGED <<phase, timers>>
        \/ /\ m.what = "error"
           /\ Ends(Listeners, NoPicture)
           /\ UNCHANGED <<phase, timers>>
  /\ UNCHANGED <<ready, asked, scene, texture, late, together>>

\* Mutant: nothing is given up.
Waits(f) == FALSE

\* thirty seconds are more than all the other timers of an upload
GivesUp(f) == \A t \in timers : t.file # f

\* abortTimer; it also ends the preview of a file that cannot be read
AbortTimer(u) ==
  /\ u \in Listeners
  /\ GivesUp(u)
  /\ late' = (late \/ Owed)
  /\ Ends({u}, NoPicture)
  /\ UNCHANGED <<ready, phase, timers, renderer, together>>

Init ==
  /\ stage = [u \in Upload |-> "no"] /\ ready = FALSE
  /\ phase = [u \in Upload |-> "loading_scene"]
  /\ timers = {} /\ asked = <<>> /\ told = <<>> /\ scene = 0 /\ texture = 0
  /\ preview = [u \in Upload |-> NoPicture] /\ late = FALSE /\ together = FALSE

Timeouts == \E f \in Upload : SceneTimer(f) \/ TextureTimer(f) \/ CaptureTimer(f)
Page == Timeouts \/ \E u \in Upload : WaitForGodotReady(u) \/ ReaderLoaded(u) \/ AbortTimer(u)

Next == GodotReady \/ Godot \/ Handler \/ Page \/ \E u \in Upload : Start(u)

Spec == Init /\ [][Next]_vars

\* Timers fire and files are read; nothing is asked of the renderer or of the user.
FairSpec == Spec /\ WF_vars(Page)

-----------------------------------------------------------------------------
(* Properties                                                              *)

\* As long as one preview is under way at a time, and the renderer answers before it is
\* given up, a wrap is sent with its own picture or with none, although the listener of an
\* upload hears what the renderer says of the one before and every scene is announced
\* once or twice: a picture of another upload's scene or texture would be published under
\* its name.
PreviewOwn ==
  ~late /\ ~together =>
    \A u \in Upload : preview[u].texture \in {0, u} /\ preview[u].scene \in {0, u}

\* Whatever the renderer does or fails to do, and however many previews are under way, an
\* upload that was begun gets as far as the request that sends the wrap.  (Whether that
\* request is answered is not said.)
PreviewsEnd == \A u \in Upload : stage[u] = "wait" ~> stage[u] = "sent"
=============================================================================
