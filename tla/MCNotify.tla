------------------------------ MODULE MCNotify ------------------------------
EXTENDS Notify, TLC

CONSTANTS t1, t2, dev, f, g, h1, h2, w1, w2

TwoThreads == {t1, t2}
OneDevice == {dev}
TwoCallbacks == {f, g}
OneEvaluating == {g}
TwoHandlers == {h1, h2}
TwoWorks == {w1, w2}
=============================================================================
