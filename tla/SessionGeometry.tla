--------------------------- MODULE SessionGeometry ---------------------------
(***************************************************************************)
(* Frame, latent and chunk counts: main of scripts/run_browser.py and of   *)
(* scripts/run_live.py turn --max-actions into frames, prepare_session     *)
(* (scripts/run_interactive.py) turns frames and camera poses into latent  *)
(* chunks.  The VAE stride in time is the literal 4 of the frame formulas. *)
(***************************************************************************)
EXTENDS Integers

Smaller(a, b) == IF a < b THEN a ELSE b

\* The largest 4k + 1 that is at most n, for n >= 1.
Aligned(n) == ((n - 1) \div 4) * 4 + 1

\* args.frames of both live entry points.
ConfiguredFrames(maxActions) == 4 * (maxActions + 1) + 1

\* frame_num of prepare_session.
FrameNum(frames, poses) == Smaller(Aligned(frames), Aligned(poses))

\* lat_f, which is len(noise_chunks): noise.split(1, dim=1).
LatentFrames(frames, poses) == (FrameNum(frames, poses) - 1) \div 4 + 1

\* len(plucker_chunks): the interpolated camera poses, one per latent frame.
CameraChunks(frames, poses) == (FrameNum(frames, poses) - 1) \div 4 + 1

\* The session's chunks when started with --max-actions on a path of poses.
SessionChunks(maxActions, poses) ==
    LatentFrames(ConfiguredFrames(maxActions), poses)

\* The viewer's cap on user actions: min(max_actions, len(noise_chunks) - 1).
LiveActions(maxActions, poses) ==
    Smaller(maxActions, SessionChunks(maxActions, poses) - 1)
=============================================================================
