------------------------------- MODULE MCTree -------------------------------
EXTENDS TreeSync

ThreeFolders == <<<<1>>, <<1, 1>>, <<2>>, <<2, 1>>, <<3>>, <<3, 1>>>>
SixPaths == <<<<1>>, <<1, 1>>, <<1, 2>>, <<2>>, <<2, 1>>, <<2, 2>>>>
=============================================================================
