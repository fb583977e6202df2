--------------------------- MODULE MCRadarSystem ---------------------------
(* Instances of RadarSystem: one beam, one track, one component. *)
EXTENDS RadarSystem

MCBeams == <<0>>
MCTracks == <<100>>
MCComponents == <<"alpha.radar_array">>

CommandView == {"Command", "CommandStatus"}
MCViews ==
  {CommandView, {"ComponentStatus", "ComponentStatusRequest"}, {"SystemAlarm"},
   {"RadarTrack"}, {"RawIQSample"}, {"OperatorAuditLog"}, {"TrackingCue"},
   {"OperatorChat"}}
MCCommandView == {CommandView}
=============================================================================
