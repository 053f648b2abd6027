---------------------------- MODULE MCSrsStore -----------------------------
(* Instances of SrsStore for TLC. *)
EXTENDS SrsStore

OneTab == {"A"}
TwoTabs == {"A", "B"}
WorkingModes == {"ok"}
AllModes == {"ok", "full", "blocked"}
=============================================================================
