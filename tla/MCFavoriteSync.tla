--------------------------- MODULE MCFavoriteSync ---------------------------
EXTENDS FavoriteSync
=============================================================================
