--------------------------- MODULE MCDeployStream ---------------------------
(* Values for the constants of the stream's runs.                          *)
EXTENDS DeployStream

\* What the processes of the guest print: the line a client could mistake for
\* the daemon's, and none like oak-init's.
Plain == {Line("ok", NoMarker)}

=============================================================================
