---------------------- MODULE MCAdvertisementLifecycle ----------------------
EXTENDS AdvertisementLifecycle

CONSTANTS paid, free
=============================================================================
