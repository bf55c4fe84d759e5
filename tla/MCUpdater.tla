----------------------------- MODULE MCUpdater -----------------------------
EXTENDS Updater
============================================================================
