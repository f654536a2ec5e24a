------------------------------- MODULE MCCli -------------------------------
(***************************************************************************)
(* Small instances of MuxCli.                                              *)
(***************************************************************************)
EXTENDS MuxCli

\* The pieces of a text of four bytes, and noise of two.
PortData == {<<"DATA", 0, n>> : n \in {1, 2, 3, 4}}

\* Reports of one packet and of two.
Reports == {<<"EVT", 0, 8>>, <<"EVT", 0, 48>>}

Everything == PortData \cup Reports

\* The pieces of a text of two bytes, and frames with no data at all.
EverythingEmpty == {<<"DATA", 0, n>> : n \in 0 .. 2} \cup Reports
=============================================================================
