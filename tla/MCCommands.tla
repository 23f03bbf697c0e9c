----------------------------- MODULE MCCommands -----------------------------
(***************************************************************************)
(* lqueue and tqueue over five albums of one track each.                   *)
(***************************************************************************)
EXTENDS Commands

FiveAlbums == << <<1>>, <<2>>, <<3>>, <<4>>, <<5>> >>
=============================================================================
