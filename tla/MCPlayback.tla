----------------------------- MODULE MCPlayback -----------------------------
(* Small instances of Playback for TLC. *)
EXTENDS Playback

MCMixes == {"alias", "zones", "rename"} :> 4 @@ {"default", "zones", "rename"} :> 3
           @@ {"stop", "play"} :> 2 @@ {"play", "zones"} :> 3
=============================================================================
