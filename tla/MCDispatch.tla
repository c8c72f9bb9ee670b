------------------------------ MODULE MCDispatch ------------------------------
(* Instances of Dispatch for TLC.                                          *)
EXTENDS Dispatch

\* The ends of every range of memory, and their neighbours.
Boundaries == {0, 1999, 2000, 2019, 2020, 2039, 2040,
               3999, 4000, 4059, 4060, 4119, 4120, 4179, 4180, 65535}

\* No data, data that stops short of the runtime, and complete data.
Emergencies == {<<>>, <<0>>, <<0, 2, 1>>, <<0, 2, 0, 1>>, <<0, 2, 255, 255>>}

\* Emergencies of the length PublishSensorStateTopic documents.
Documented6 == {<<>>, <<0, 2, 0, 0>>, <<0, 2, 0, 1>>, <<0, 2, 1, 0>>, <<0, 2, 255, 255>>}

\* The two examples of PublishTemperature.
Temperatures == {<<2, 53>>, <<241, 144>>}
=============================================================================
