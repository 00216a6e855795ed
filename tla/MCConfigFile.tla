---------------------------- MODULE MCConfigFile ----------------------------
EXTENDS ConfigFile

MCWords == {NotANumber, -1, 2}

=============================================================================
