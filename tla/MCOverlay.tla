------------------------------ MODULE MCOverlay ------------------------------
(* Overlay over the full tree of depth three below /a, with a file /b. *)
EXTENDS Overlay

MCNames == {"a", "b"}
MCDirs == {<<"a">>, <<"a", "a">>, <<"a", "b">>}
MCFiles == {<<"b">>, <<"a", "a", "b">>, <<"a", "b", "a">>, <<"a", "b", "b">>}
Everything == <<"**">>
AllOfA == <<"a", "**">>
OneOfA == <<"a", "*">>
Deep == <<"a", "b", "b">>
Middle == <<"a", "b">>
Inner == <<"a", "*", "b">>

MCManifests == {{}, {Everything}, {AllOfA}, {OneOfA}, {Deep}, {Middle}, {Inner},
                {<<"b">>, Deep}, {<<"b">>, Middle}}
=============================================================================
