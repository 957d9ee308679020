-------------------------------- MODULE Names --------------------------------
(* The identities the server's parts share: connection ids (each is used once,
   as the ULIDs of ws.rs are) and channel names. *)
CONSTANTS Conns, Channels
=============================================================================
