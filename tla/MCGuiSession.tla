----------------------------- MODULE MCGuiSession ------------------------------
\* GuiSession with Cursor and one other package.
EXTENDS GuiSession

CONSTANTS other

MCPackage == {Cursor, other}
=============================================================================
