------------------------ MODULE MCCharacterStream --------------------------
(* One Minecraft client with up to two sockets, for TLC. *)
EXTENDS CharacterSocket
=============================================================================
