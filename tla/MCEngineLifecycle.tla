-------------------------- MODULE MCEngineLifecycle --------------------------
EXTENDS EngineLifecycle
=============================================================================
