SPECIFICATION FairSpec
PROPERTY AddressTakesEffect
