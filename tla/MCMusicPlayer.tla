---------------------------- MODULE MCMusicPlayer ----------------------------
(***************************************************************************)
(* Small instances of MusicPlayer.  The tracks are a short mono one and a  *)
(* longer stereo one, so that a short track ends while buffers of the      *)
(* other are queued and a change of track may change the format.           *)
(***************************************************************************)
EXTENDS MusicPlayer, TLC

CONSTANTS c1, c2, short, long

MCLength == short :> 1 @@ long :> 3
MCFormat == short :> "mono" @@ long :> "stereo"
Symmetry == Permutations(Caller)
=============================================================================
